---------------------------- MODULE Spec2Model ----------------------------
(***************************************************************************)
(* Model of the V1 -> V2 role translation                                  *)
(* (migration_tool/sharedSystemRolesReplicatedRoleBindings.py) and of the  *)
(* dual-write handler (management/role/relation_api_dual_write_handler.py) *)
(* of insights-rbac.                                                       *)
(*                                                                         *)
(* Python strings are modelled as sequences of atoms (an atom is a word or *)
(* one punctuation character), so that lower-casing, character             *)
(* replacement, splitting and JSON parsing are computed, not assumed.      *)
(***************************************************************************)
EXTENDS Integers, Sequences, FiniteSets, TLC

(***************************************************************************)
(* Bounds of the model.                                                    *)
(***************************************************************************)
MaxWrites == 2
MaxPublishes == 2

(***************************************************************************)
(* Strings.                                                                *)
(***************************************************************************)
Underscore == "_"
Comma == ","
Dot == "."
Quote == "\""
Digits == {"1", "2", "3", "7"}
PyNone == <<"<None>">>

\* a set as a sequence, in an arbitrary but fixed order (the iteration order
\* of a Python set or of a dict keyed by hashes)
RECURSIVE SetToSeq(_)
SetToSeq(S) ==
    IF S = {} THEN <<>>
    ELSE LET x == CHOOSE y \in S : TRUE IN <<x>> \o SetToSeq(S \ {x})

\* str.lower() on one atom
LowerAtom(a) ==
    CASE a = "Read" -> "read"
      [] a = "App" -> "app"
      [] a = "X" -> "x"
      [] OTHER -> a

DisallowedAtoms == {"-", ".", ":", " "}

cleanNameForV2SchemaCompatibility(s) ==
    [i \in DOMAIN s |->
        IF LowerAtom(s[i]) \in DisallowedAtoms THEN Underscore ELSE LowerAtom(s[i])]

\* index of the first occurrence of atom sep in s, 0 when there is none
FirstIndex(s, sep) ==
    IF \E i \in DOMAIN s : s[i] = sep
    THEN CHOOSE i \in DOMAIN s : s[i] = sep /\ \A j \in 1..(i - 1) : s[j] # sep
    ELSE 0

\* s.split(sep, 1)
SplitOnce(s, sep) ==
    LET i == FirstIndex(s, sep) IN
    IF i = 0 THEN <<s>> ELSE <<SubSeq(s, 1, i - 1), SubSeq(s, i + 1, Len(s))>>

\* s.split(sep)
RECURSIVE SplitAll(_, _)
SplitAll(s, sep) ==
    LET i == FirstIndex(s, sep) IN
    IF i = 0 THEN <<s>>
    ELSE <<SubSeq(s, 1, i - 1)>> \o SplitAll(SubSeq(s, i + 1, Len(s)), sep)

(***************************************************************************)
(* Python values a resource id can take after parsing.                     *)
(***************************************************************************)
IntVal(s) == [t |-> "int", v |-> s]
StrVal(s) == [t |-> "str", v |-> s]
NullVal == [t |-> "null", v |-> <<>>]

\* json.loads of a scalar literal
JsonScalar(s) ==
    IF s = <<"null">> THEN [ok |-> TRUE, val |-> NullVal]
    ELSE IF Len(s) >= 1 /\ \A i \in DOMAIN s : s[i] \in Digits
         THEN [ok |-> TRUE, val |-> IntVal(s)]
    ELSE IF Len(s) >= 2 /\ s[1] = Quote /\ s[Len(s)] = Quote
            /\ \A i \in 2..(Len(s) - 1) : s[i] # Quote
         THEN [ok |-> TRUE, val |-> StrVal(SubSeq(s, 2, Len(s) - 1))]
    ELSE [ok |-> FALSE, val |-> NullVal]

\* json.loads: a scalar or a flat array of scalars
JsonLoads(s) ==
    IF Len(s) >= 2 /\ s[1] = "[" /\ s[Len(s)] = "]"
    THEN LET inner == SubSeq(s, 2, Len(s) - 1)
             pieces == IF inner = <<>> THEN <<>> ELSE SplitAll(inner, Comma)
         IN IF \A i \in DOMAIN pieces : JsonScalar(pieces[i]).ok
            THEN [ok |-> TRUE, kind |-> "list",
                  items |-> [i \in DOMAIN pieces |-> JsonScalar(pieces[i]).val]]
            ELSE [ok |-> FALSE, kind |-> "none", items |-> <<>>]
    ELSE IF JsonScalar(s).ok
         THEN [ok |-> TRUE, kind |-> "scalar", items |-> <<JsonScalar(s).val>>]
         ELSE [ok |-> FALSE, kind |-> "none", items |-> <<>>]

(***************************************************************************)
(* Resource Binder.                                                        *)
(***************************************************************************)
NoError == "none"

\* the ids split_resourcedef_literal returns, as the loop of
\* v1_role_to_v2_mapping iterates them; err is the exception raised instead
SplitParsedLiteral(rid, op, parsed) ==
    IF rid = PyNone THEN [err |-> "TypeError", ids |-> <<>>]
    ELSE IF op = "in"
    THEN IF ~parsed.ok
         THEN [err |-> NoError,
               ids |-> [i \in DOMAIN SplitAll(rid, Comma) |-> StrVal(SplitAll(rid, Comma)[i])]]
         ELSE IF parsed.kind = "list" THEN [err |-> NoError, ids |-> parsed.items]
         ELSE IF parsed.items[1].t = "str"
              \* a JSON string is returned as a str: the caller iterates its characters
              THEN [err |-> NoError,
                    ids |-> [i \in DOMAIN parsed.items[1].v |-> StrVal(<<parsed.items[1].v[i]>>)]]
              \* an int or None is not iterable
              ELSE [err |-> "TypeError", ids |-> <<>>]
    ELSE IF ~parsed.ok THEN [err |-> "JSONDecodeError", ids |-> <<>>]
         \* a list is no hashable resource id
         ELSE IF parsed.kind = "list" THEN [err |-> "TypeError", ids |-> <<>>]
         ELSE [err |-> NoError, ids |-> parsed.items]

split_resourcedef_literal(resourceDef) ==
    SplitParsedLiteral(resourceDef.resource_id, resourceDef.op,
                       JsonLoads(resourceDef.resource_id))

skipped_apps == {<<"cost", "-", "management">>, <<"playbook", "-", "dispatcher">>, <<"approval">>}

\* variant of the test below that skips no application
is_for_any_app(perm) == TRUE

is_for_enabled_app(perm) == perm.app \notin skipped_apps

v1_perm_to_v2_perm(v1_permission) ==
    IF v1_permission.app = <<"inventory">> /\ v1_permission.resource = <<"groups">>
    THEN cleanNameForV2SchemaCompatibility(<<"workspace", Underscore>> \o v1_permission.perm)
    ELSE cleanNameForV2SchemaCompatibility(
             v1_permission.app \o <<Underscore>> \o v1_permission.resource
                 \o <<Underscore>> \o v1_permission.perm)

\* err is IndexError when the type has no dot
v1_attributefilter_resource_type_to_v2_resource_type(resourceType) ==
    LET parts == SplitOnce(resourceType, Dot) IN
    IF Len(parts) < 2 THEN [err |-> "IndexError", type |-> <<>>]
    ELSE [err |-> NoError,
          type |-> cleanNameForV2SchemaCompatibility(parts[1]) \o <<"/">>
                       \o cleanNameForV2SchemaCompatibility(parts[2])]

WorkspaceType == <<"workspace">>

V2boundresource(resource_type, resource_id) ==
    [resource_id |-> resource_id, resource_type |-> resource_type]

\* resource type of one resource definition of a permission (lines 108-112)
ResourceTypeOf(v1_perm, resource_def) ==
    IF v1_perm.app = <<"inventory">> THEN [err |-> NoError, type |-> WorkspaceType]
    ELSE v1_attributefilter_resource_type_to_v2_resource_type(resource_def.resource_type)

\* the (bound resource, permission) pairs one resource definition adds to
\* perm_groupings (lines 107-121)
BoundResourcePairs(resource_type, ids, v2_perm, default_workspace) ==
    {<<V2boundresource(resource_type,
                       IF resource_type = WorkspaceType /\ ids[i] = NullVal
                       THEN default_workspace ELSE ids[i]),
       v2_perm>> : i \in DOMAIN ids}

ResourceDefPairs(v1_perm, resource_def, default_workspace) ==
    BoundResourcePairs(ResourceTypeOf(v1_perm, resource_def).type,
                       split_resourcedef_literal(resource_def).ids,
                       v1_perm_to_v2_perm(v1_perm), default_workspace)

\* the exceptions the grouping loop can raise on a resource definition
ResourceDefErrors(v1_perm, resource_def) ==
    {e \in {ResourceTypeOf(v1_perm, resource_def).err,
            split_resourcedef_literal(resource_def).err} : e # NoError}

EnabledPerms(v1_role) == {p \in v1_role.permissions : is_for_enabled_app(p)}

\* perm_groupings of v1_role_to_v2_mapping (lines 100-127) as the set of
\* (bound resource, permission) pairs add_element accumulated
PermGroupingPairs(v1_role, root_workspace, default_workspace) ==
    UNION {IF p.resourceDefs = {}
           THEN {<<V2boundresource(WorkspaceType, root_workspace), v1_perm_to_v2_perm(p)>>}
           ELSE UNION {ResourceDefPairs(p, rd, default_workspace) : rd \in p.resourceDefs}
           : p \in EnabledPerms(v1_role)}

PermGroupingErrors(v1_role) ==
    UNION {UNION {ResourceDefErrors(p, rd) : rd \in p.resourceDefs} : p \in EnabledPerms(v1_role)}

\* perm_groupings as the dict: bound resource -> permissions granted on it
GroupByResource(pairs) ==
    [res \in {pr[1] : pr \in pairs} |-> {pr[2] : pr \in {q \in pairs : q[1] = res}}]

PermGroupings(v1_role, root_workspace, default_workspace) ==
    GroupByResource(PermGroupingPairs(v1_role, root_workspace, default_workspace))


(***************************************************************************)
(* Identifiers: uuid.uuid4() yields an identifier different from every     *)
(* identifier in use; the model takes the first unused one.                *)
(***************************************************************************)
Uuid(n) == "u" \o ToString(n)

FreshUuid(used) ==
    Uuid(CHOOSE n \in 1..(Cardinality(used) + 1) :
            /\ Uuid(n) \notin used
            /\ \A m \in 1..(n - 1) : Uuid(m) \in used)

(***************************************************************************)
(* System role registry (class SystemRole).  The registry is a dict keyed  *)
(* by frozenset of permissions: a sequence of entries in insertion order.  *)
(***************************************************************************)
V2role(id, is_system, permissions) ==
    [permissions |-> permissions, id |-> id, is_system |-> is_system]

RegistryKeys(system_roles) == {system_roles[i].perms : i \in DOMAIN system_roles}

\* system_roles.get(key): the role stored under the key, or None
NoRole == V2role("", FALSE, {})

\* variant of the lookup below that takes the first role whose permissions
\* lie within the key
RegistryGetWithin(system_roles, key) ==
    IF \E i \in DOMAIN system_roles : system_roles[i].perms \subseteq key
    THEN system_roles[CHOOSE i \in DOMAIN system_roles :
                          /\ system_roles[i].perms \subseteq key
                          /\ \A j \in 1..(i - 1) : ~(system_roles[j].perms \subseteq key)].role
    ELSE NoRole

RegistryGet(system_roles, key) ==
    IF key \in RegistryKeys(system_roles)
    THEN system_roles[CHOOSE i \in DOMAIN system_roles : system_roles[i].perms = key].role
    ELSE NoRole

\* system_roles[frozenset(role.permissions)] = role
add_system_role(system_roles, role) ==
    IF role.permissions \in RegistryKeys(system_roles)
    THEN [i \in DOMAIN system_roles |->
            IF system_roles[i].perms = role.permissions
            THEN [perms |-> role.permissions, role |-> role]
            ELSE system_roles[i]]
    ELSE Append(system_roles, [perms |-> role.permissions, role |-> role])

inventory_to_workspace(v2_perm) ==
    IF v2_perm = <<"inventory", Underscore, "groups", Underscore, "read">>
    THEN <<"workspace", Underscore, "read">>
    ELSE IF v2_perm = <<"inventory", Underscore, "groups", Underscore, "write">>
    THEN <<"workspace", Underscore, "write">>
    ELSE IF v2_perm = <<"inventory", Underscore, "groups", Underscore, "all">>
    THEN <<"workspace", Underscore, "all">>
    ELSE v2_perm

\* the V2 role set_system_roles builds from one row of Role (lines 87-92)
SystemRoleOfRow(row) ==
    V2role(row.uuid, TRUE,
           {inventory_to_workspace(cleanNameForV2SchemaCompatibility(p)) : p \in row.access})

\* variant of the population below that registers the roles with an
\* external role id too
RECURSIVE set_system_roles_with_external(_, _)
set_system_roles_with_external(system_roles, rows) ==
    IF rows = <<>> THEN system_roles
    ELSE set_system_roles_with_external(
             add_system_role(system_roles, SystemRoleOfRow(Head(rows))), Tail(rows))

\* rows: Role.objects.filter(system=True), in the order of the query
RECURSIVE set_system_roles(_, _)
set_system_roles(system_roles, rows) ==
    IF rows = <<>> THEN system_roles
    ELSE IF Head(rows).external_role_id
         THEN set_system_roles(system_roles, Tail(rows))
         ELSE set_system_roles(add_system_role(system_roles, SystemRoleOfRow(Head(rows))),
                               Tail(rows))

SystemRowsOf(role_rows) == SelectSeq(role_rows, LAMBDA row : row.system)

\* the registry after get_system_roles, which is also what it returns
get_system_roles(system_roles, role_rows) ==
    IF system_roles = <<>> THEN set_system_roles(system_roles, SystemRowsOf(role_rows))
    ELSE system_roles

(***************************************************************************)
(* System Role Matcher (extract_system_roles).                             *)
(***************************************************************************)
\* variant of the loop below that accepts every role whose permissions lie
\* within the permission set
RECURSIVE GreedyCoverAnySubset(_, _, _, _, _)
GreedyCoverAnySubset(system_roles, permset, i, granted, matched_roles) ==
    IF i > Len(system_roles) THEN [granted |-> granted, matched_roles |-> matched_roles]
    ELSE LET sysperms == system_roles[i].perms
             accept == sysperms \subseteq permset
             granted2 == IF accept THEN granted \cup sysperms ELSE granted
             matched2 == IF accept THEN Append(matched_roles, system_roles[i].role)
                         ELSE matched_roles
         IN IF permset = granted2
            THEN [granted |-> granted2, matched_roles |-> matched2]
            ELSE GreedyCoverAnySubset(system_roles, permset, i + 1, granted2, matched2)

\* the loop of lines 168-176 from registry position i on
RECURSIVE GreedyCover(_, _, _, _, _)
GreedyCover(system_roles, permset, i, granted, matched_roles) ==
    IF i > Len(system_roles) THEN [granted |-> granted, matched_roles |-> matched_roles]
    ELSE LET sysperms == system_roles[i].perms
             accept == sysperms \subseteq permset /\ ~(sysperms \subseteq granted)
             granted2 == IF accept THEN granted \cup sysperms ELSE granted
             matched2 == IF accept THEN Append(matched_roles, system_roles[i].role)
                         ELSE matched_roles
         IN IF permset = granted2
            THEN [granted |-> granted2, matched_roles |-> matched2]
            ELSE GreedyCover(system_roles, permset, i + 1, granted2, matched2)

\* perm.split("_", 1)[0]
AppOfPerm(perm) == SplitOnce(perm, Underscore)[1]

\* the candidate permission sets of lines 188-202 for one resource
CandidatesOf(permissions, leftovers) ==
    {{perm \in permissions : AppOfPerm(perm) = app} : app \in {AppOfPerm(l) : l \in leftovers}}

\* variant of the update below that stores the contributing role alone
AddCandidatesOverwriting(candidates, newKeys, v1_role_id) ==
    [k \in DOMAIN candidates \cup newKeys |->
        IF k \in newKeys THEN {v1_role_id} ELSE candidates[k]]

\* lines 201-206
AddCandidates(candidates, newKeys, v1_role_id) ==
    [k \in DOMAIN candidates \cup newKeys |->
        (IF k \in DOMAIN candidates THEN candidates[k] ELSE {})
            \cup (IF k \in newKeys THEN {v1_role_id} ELSE {})]

\* One iteration of the loop of line 158 for one resource.  st holds
\* resource_roles (pairs <<role, resource>>), the two module globals and the
\* identifiers in use.
\* variant of the iteration below that adds no custom role when the
\* candidates of the leftovers are all tracked already
ExtractWithCandidateReuse(st, resource, permissions, v1_role, exact, cover, custom) ==
    IF exact # NoRole
    THEN [st EXCEPT !.resource_roles = @ \cup {<<exact, resource>>}]
    ELSE IF permissions = cover.granted
    THEN [st EXCEPT !.resource_roles =
              @ \cup {<<cover.matched_roles[i], resource>> : i \in DOMAIN cover.matched_roles}]
    ELSE IF CandidatesOf(permissions, permissions \ cover.granted)
                \subseteq DOMAIN st.candidate_system_roles
    THEN st
    ELSE [st EXCEPT !.resource_roles = @ \cup {<<custom, resource>>},
                    !.candidate_system_roles =
                        AddCandidates(@, CandidatesOf(permissions,
                                                      permissions \ cover.granted), v1_role.id),
                    !.custom_roles_created = @ + 1,
                    !.used = @ \cup {custom.id}]

ExtractWith(st, resource, permissions, v1_role, exact, cover, custom) ==
    IF exact # NoRole
    THEN [st EXCEPT !.resource_roles = @ \cup {<<exact, resource>>}]
    ELSE IF permissions = cover.granted
    THEN [st EXCEPT !.resource_roles =
              @ \cup {<<cover.matched_roles[i], resource>> : i \in DOMAIN cover.matched_roles}]
    ELSE [st EXCEPT !.resource_roles = @ \cup {<<custom, resource>>},
                    !.candidate_system_roles =
                        AddCandidates(@, CandidatesOf(permissions,
                                                      permissions \ cover.granted), v1_role.id),
                    !.custom_roles_created = @ + 1,
                    !.used = @ \cup {custom.id}]

\* variant of the iteration below that reuses one custom role per
\* permission set
ExtractOneSharedCustomRole(st, system_roles, resource, permissions, v1_role) ==
    ExtractWith(st, resource, permissions, v1_role,
                RegistryGet(system_roles, permissions),
                GreedyCover(system_roles, permissions, 1, {}, <<>>),
                V2role("custom", FALSE, permissions))

ExtractOne(st, system_roles, resource, permissions, v1_role) ==
    ExtractWith(st, resource, permissions, v1_role,
                RegistryGet(system_roles, permissions),
                GreedyCover(system_roles, permissions, 1, {}, <<>>),
                V2role(FreshUuid(st.used), FALSE, permissions))

\* variant of the loop below that leaves after the first resource
ExtractFirstResource(st, system_roles, resources, perm_groupings, v1_role) ==
    IF resources = <<>> THEN st
    ELSE ExtractOne(st, system_roles, Head(resources), perm_groupings[Head(resources)], v1_role)

\* the loop of line 158 over the resources left
RECURSIVE ExtractLoop(_, _, _, _, _)
ExtractLoop(st, system_roles, resources, perm_groupings, v1_role) ==
    IF resources = <<>> THEN st
    ELSE ExtractLoop(ExtractOne(st, system_roles, Head(resources),
                                perm_groupings[Head(resources)], v1_role),
                     system_roles, Tail(resources), perm_groupings, v1_role)

\* g holds the globals SYSTEM_ROLES, candidate_system_roles,
\* custom_roles_created; the result holds resource_roles, the globals after
\* the call and the identifiers in use
ExtractResult(st, system_roles) ==
    [used |-> st.used,
     resource_roles |-> st.resource_roles,
     candidate_system_roles |-> st.candidate_system_roles,
     custom_roles_created |-> st.custom_roles_created,
     SYSTEM_ROLES |-> system_roles]

ExtractWithRegistry(perm_groupings, v1_role, g, system_roles, used) ==
    ExtractResult(ExtractLoop([used |-> used,
                               resource_roles |-> {},
                               candidate_system_roles |-> g.candidate_system_roles,
                               custom_roles_created |-> g.custom_roles_created],
                              system_roles, SetToSeq(DOMAIN perm_groupings), perm_groupings,
                              v1_role),
                  system_roles)

extract_system_roles(perm_groupings, v1_role, g, role_rows, used) ==
    ExtractWithRegistry(perm_groupings, v1_role, g,
                        get_system_roles(g.SYSTEM_ROLES, role_rows), used)

(***************************************************************************)
(* Role Binding Generator (v1_role_to_v2_mapping, lines 131-147).          *)
(***************************************************************************)
V2group(id, users) == [id |-> id, users |-> users]

v1groups_to_v2groups(v1groups) == {V2group(v1group.id, v1group.users) : v1group \in v1groups}

V2rolebinding(id, originalRole, role, resources, groups) ==
    [id |-> id, role |-> role, resources |-> resources,
     originalRole |-> originalRole, groups |-> groups]

\* the group sets of the bindings of one (role, resource) pair
\* variant of the group sets below that binds all the groups at once
BindingGroupSetsTogether(v2_groups) == {v2_groups}

BindingGroupSets(v2_groups) ==
    IF v2_groups # {} THEN {{v2_group} : v2_group \in v2_groups} ELSE {v2_groups}

\* bindings for the (role, resource, groups) triples left, each with a fresh id
RECURSIVE MakeBindings(_, _, _)
MakeBindings(triples, v1_role, used) ==
    IF triples = <<>> THEN {}
    ELSE LET t == Head(triples)
             role_binding_id == FreshUuid(used)
         IN {V2rolebinding(role_binding_id, v1_role.id, t[1], {t[2]}, t[3])}
                \cup MakeBindings(Tail(triples), v1_role, used \cup {role_binding_id})

\* result: err (exceptions that can be raised), bindings, the globals after
\* the loop of lines 133-147 over resource_roles and the groups
BindingTriples(resource_roles, v2_groups) ==
    {<<pr[1], pr[2], gs>> : pr \in resource_roles, gs \in BindingGroupSets(v2_groups)}

\* lines 129-147, ex being what extract_system_roles returned and left behind
BindingsOf(v1_role, ex) ==
    [resource_roles |-> ex.resource_roles,
     g |-> [candidate_system_roles |-> ex.candidate_system_roles,
            custom_roles_created |-> ex.custom_roles_created,
            SYSTEM_ROLES |-> ex.SYSTEM_ROLES],
     errs |-> {},
     bindings |-> MakeBindings(
                      SetToSeq(BindingTriples(ex.resource_roles,
                                              v1groups_to_v2groups(v1_role.groups))),
                      v1_role, ex.used)]

\* errs: the exceptions the grouping loop of lines 100-127 can raise
MappingOrErrors(v1_role, root_workspace, default_workspace, g, role_rows, used, errs) ==
    IF errs # {}
    THEN [resource_roles |-> {}, g |-> g, errs |-> errs, bindings |-> {}]
    ELSE BindingsOf(v1_role,
                    extract_system_roles(
                        PermGroupings(v1_role, root_workspace, default_workspace),
                        v1_role, g, role_rows, used))

v1_role_to_v2_mapping(v1_role, root_workspace, default_workspace, g, role_rows, used) ==
    MappingOrErrors(v1_role, root_workspace, default_workspace, g, role_rows, used,
                    PermGroupingErrors(v1_role))

(***************************************************************************)
(* The data of the model: legacy roles, groups, tenants.                   *)
(***************************************************************************)
RoleIds == {"R1"}
HandlerIds == {"h1"}
NoneRole == "<None>"
EventTypes == {"CREATE", "UPDATE"}

G1 == [id |-> "G1", users |-> {"alice"}]

\* app:x:read and app:y:write granted without resource definition, and a
\* permission whose resource definition has a type without a dot
PermXRead == [perm |-> <<"read">>, app |-> <<"app">>, resource |-> <<"x">>, resourceDefs |-> {}]
PermYWrite == [perm |-> <<"write">>, app |-> <<"app">>, resource |-> <<"y">>, resourceDefs |-> {}]
PermBadType ==
    [perm |-> <<"read">>, app |-> <<"app">>, resource |-> <<"z">>,
     resourceDefs |-> {[op |-> "equal", resource_id |-> <<"1">>, resource_type |-> <<"nodot">>]}]

AccessChoices == {{}, {PermXRead}, {PermXRead, PermYWrite}, {PermBadType}}
GroupChoices == {{G1}}

\* the rows of Role that are not tenant roles: the seeded system role S1
\* granting app:x:read, and a system role with an external role id
SeededRoleRows ==
    << [uuid |-> "S1", access |-> {<<"app", ":", "x", ":", "read">>}, external_role_id |-> FALSE,
        system |-> TRUE],
       [uuid |-> "S2", access |-> {<<"app", ":", "y", ":", "write">>}, external_role_id |-> TRUE,
        system |-> TRUE] >>

\* the root workspace of the tenant and its org_id (the default workspace)
W1 == StrVal(<<"W1">>)
OrgId == StrVal(<<"org1">>)

(***************************************************************************)
(* migrate_role and the serialisation of relations.                        *)
(***************************************************************************)
\* the relation published for one role binding
Relationship(binding) ==
    [id |-> binding.id, role |-> binding.role, resources |-> binding.resources,
     groups |-> {grp.id : grp \in binding.groups}]

relationship_to_json(relation) ==
    [binding |-> relation.id,
     relation |-> [permissions |-> relation.role.permissions, is_system |-> relation.role.is_system,
                   role_id |-> relation.role.id],
     object |-> relation.resources,
     subject |-> [ids |-> relation.groups, type |-> "group"]]

extract_info_into_v1_role(role_row) ==
    [permissions |-> role_row.access, id |-> role_row.uuid, groups |-> role_row.groups]

\* result: errs (exceptions that can be raised), relations, mappings, the
\* module globals after the call
RelationsOfMapping(res) ==
    [g |-> res.g,
     errs |-> res.errs,
     relations |-> {Relationship(b) : b \in res.bindings},
     mappings |-> res.bindings]

migrate_role(role_row, default_workspace, current_mapping, g, role_rows, used) ==
    RelationsOfMapping(v1_role_to_v2_mapping(extract_info_into_v1_role(role_row), W1,
                                             default_workspace, g, role_rows, used))

(***************************************************************************)
(* State.                                                                  *)
(***************************************************************************)
VARIABLES
    REPLICATION_TO_RELATION_ENABLED, \* the environment flag
    SYSTEM_ROLES,              \* SystemRole.SYSTEM_ROLES
    candidate_system_roles,    \* module global
    custom_roles_created,      \* module global
    db,                        \* the database as the open transaction sees it
    committed,                 \* the database as last committed
    handler,                   \* the attributes of each RelationApiDualWriteHandler
    pc,                        \* where the caller of each handler stands
    target,                    \* the role each caller writes
    exc,                       \* the exception that escaped the last operation
    ret,                       \* what the last operation returned
    writes,                    \* handlers constructed so far
    publishes,                 \* generate/save calls made on each handler
    loaded,                    \* what the load of each handler found: "no" load yet,
                               \* mapping "missing", mapping "found"
    role_store,                \* the rows of Role that are not tenant roles
    call,                      \* the last direct call of a translation function
    calls,                     \* direct calls of translation functions made so far
    populations,               \* runs of set_system_roles in those calls
    synthesized,               \* custom roles those calls synthesized
    thread,                    \* the threads that call the matcher concurrently
    orch,                      \* the orchestrations that run concurrently
    store,                     \* the database those orchestrations share
    events,                    \* the outbox rows they inserted, in order
    rowlock,                   \* who holds the write lock of each role's rows
    runs,                      \* orchestrations started so far
    partial_match,             \* a translation ran against a registry still
                               \* being populated
    ACCESS_CACHE_ENABLED,      \* settings.ACCESS_CACHE_ENABLED
    redis,                     \* the keys of the Redis server
    connection,                \* _connection of each cache object
    cache_call,                \* the last call of a cache method
    cache_calls,               \* calls of cache methods made so far
    latest,                    \* per tenant, user and application: the policy of
                               \* the last save_policy call no delete call followed
    redis_failed               \* a Redis error was raised in some cache call

translationVars == <<SYSTEM_ROLES, candidate_system_roles, custom_roles_created>>
dbVars == <<db, committed>>
handlerVars == <<handler, pc, target, exc, ret, writes, publishes, loaded>>
callVars == <<role_store, call, calls, populations, synthesized>>
orchVars == <<orch, store, events, rowlock, runs, partial_match>>
cacheVars ==
    <<ACCESS_CACHE_ENABLED, redis, connection, cache_call, cache_calls, latest, redis_failed>>
concVars == <<thread, orchVars, cacheVars>>
vars == <<REPLICATION_TO_RELATION_ENABLED, translationVars, dbVars, handlerVars, callVars, concVars>>

Globals ==
    [candidate_system_roles |-> candidate_system_roles,
     custom_roles_created |-> custom_roles_created,
     SYSTEM_ROLES |-> SYSTEM_ROLES]

\* BindingMapping rows and instances; NoMapping stands for None
BindingMappingRow(role, mappings) == [role |-> role, mappings |-> mappings]
NoMapping == [role |-> NoneRole, mappings |-> {}]

\* the transaction log of the outbox table for the open transaction: the
\* number of rows inserted, and the columns of the last one and whether its
\* payload holds no relation
NoWal ==
    [n |-> 0,
     last |-> [aggregatetype |-> "", aggregateid |-> "", event_type |-> "",
               payload_empty |-> TRUE]]

EmptyEvent == [relations_to_add |-> {}, relations_to_remove |-> {}]

NoExc == [type |-> "none", cause |-> "none"]
DualWriteException(e) == [type |-> "DualWriteException", cause |-> e]
RawException(e) == [type |-> e, cause |-> "none"]

\* a handler object before __init__ has assigned anything
BlankHandler ==
    [role |-> NoneRole, event_type |-> "", attrs |-> {}, role_relations |-> {},
     current_role_relations |-> {}, binding_mapping |-> NoMapping, tenant_id |-> "", org_id |-> OrgId]

AllAttrs ==
    {"role_relations", "current_role_relations", "role", "binding_mapping", "tenant_id",
     "org_id", "event_type"}

Return(op, kind, event, relations, raised) ==
    [kind |-> kind, op |-> op, relations |-> relations, event |-> event, raised |-> raised]
NoReturn == Return("none", "none", EmptyEvent, {}, NoError)

\* every identifier held anywhere in the state
UuidsOfBindings(bs) == {b.id : b \in bs} \cup {b.role.id : b \in bs}
UuidsOfRows(rows) == UNION {UuidsOfBindings(rows[i].mappings) : i \in DOMAIN rows}
UuidsOfDb(d) == UNION {UuidsOfRows(d.binding_mapping[r]) : r \in RoleIds}
UuidsOfHandler(hr) ==
    UuidsOfBindings(hr.role_relations) \cup UuidsOfBindings(hr.current_role_relations)
        \cup UuidsOfBindings(hr.binding_mapping.mappings)
UsedUuids ==
    UuidsOfDb(db) \cup UuidsOfDb(committed) \cup UNION {UuidsOfHandler(handler[h]) : h \in HandlerIds}

\* the threads of one process that share the module globals
ThreadIds == {"t1", "t2"}

\* a thread that has not called the matcher: pc is where it stands in
\* extract_system_roles, rows what the loop of set_system_roles has left,
\* seen the registry as the matcher found it, raced whether another thread
\* was in set_system_roles then, n the calls the thread made
IdleThread ==
    [err |-> NoError, n |-> 0, rows |-> <<>>, resource_roles |-> {},
     perm_groupings |-> <<>>, pc |-> "idle", seen |-> <<>>, raced |-> FALSE]

\* no translation function was called directly
NoCall == [op |-> "none"]

NoCalls ==
    /\ call = NoCall
    /\ calls = 0
    /\ populations = 0
    /\ synthesized = 0

\* the orchestrations of concurrent requests and the roles they write
OrchIds == {"o1", "o2"}
ConcRoleIds == {"A", "B"}

\* an orchestration not started: pc is the last statement it completed,
\* resume where it goes on after set_system_roles, rows what the loop of
\* set_system_roles has left, steps the statements completed in order,
\* stale whether the mapping of its role was written since it read it,
\* loaded_access and saved_role the role as it was read and as it was
\* before the caller changed it, prev the relations of the mapping its
\* upsert replaced
IdleOrch ==
    [role |-> NoneRole, rows |-> <<>>, mappings |-> {}, handler |-> BlankHandler,
     pc |-> "idle", exc |-> NoExc, resume |-> "idle", steps |-> <<>>,
     stale |-> FALSE, found |-> FALSE, loaded_access |-> {}, saved_role |-> <<>>, prev |-> {}]

\* the rows of the roles A and B, both granting app:x:read to G1
ConcRoleRows ==
    [r \in ConcRoleIds |->
        [uuid |-> r, access |-> {PermXRead}, groups |-> {G1}, tenant_id |-> "T1",
         org_id |-> OrgId]]

\* the shared database with the BindingMapping rows given
StoreWith(binding_mapping) ==
    [role |-> ConcRoleRows, binding_mapping |-> binding_mapping, outbox |-> <<>>,
     wal |-> NoWal, upserts |-> 0, seed |-> binding_mapping]

EmptyStore == StoreWith([r \in ConcRoleIds |-> <<>>])

(***************************************************************************)
(* The Redis cache (management/cache.py): strings are sequences of atoms,  *)
(* a tenant name and a user id being sequences of one atom or more.        *)
(***************************************************************************)
TenantNames == {<<"acct", "1">>, <<"acct", "1", "0">>}
UserIds == {<<"ua">>, <<"ub">>}
Applications == {"inventory", "cost"}

\* the cache objects of the process: one AccessCache per tenant and the
\* TenantCache
TheTenantCache == <<"TenantCache">>
CacheObjects == TenantNames \cup {TheTenantCache}
NoConnection == "None"

\* a Python list, or None
PyList(items) == [items |-> items, none |-> FALSE]
NoPolicy == [items |-> <<>>, none |-> TRUE]

\* the policies callers save: an empty list and a list of two items
PolicyChoices == {PyList(<<>>), PyList(<<StrVal(<<"p">>), IntVal(<<"7">>)>>)}

PolicySlots == TenantNames \X UserIds \X Applications

\* the server: hashes and strings by key, and the expiry of the keys that
\* have one
EmptyRedis == [hashes |-> <<>>, strings |-> <<>>, ttl |-> <<>>]

NoCacheCall ==
    [op |-> "none", uuid |-> <<>>, exc |-> NoError, raised |-> NoError, tenant |-> <<>>,
     application |-> "", result |-> NoPolicy, ops |-> 0]

\* the state of a new process, whatever the environment flag
InitProcess ==
    /\ SYSTEM_ROLES = <<>>
    /\ candidate_system_roles = <<>>
    /\ custom_roles_created = 0
    /\ \E a \in {{PermXRead}}, gs \in {{G1}} :
          db = [role |-> [r \in RoleIds |->
                            [uuid |-> r, access |-> a, groups |-> gs,
                             tenant_id |-> "T1", org_id |-> OrgId]],
                binding_mapping |-> [r \in RoleIds |-> <<>>],
                outbox |-> <<>>,
                wal |-> NoWal,
                upserts |-> 0,
                direct_inserts |-> 0,
                ok_publishes |-> 0,
                unpaired |-> 0,
                unpublished |-> 0]
    /\ committed = db
    /\ handler = [h \in HandlerIds |-> BlankHandler]
    /\ pc = [h \in HandlerIds |-> "idle"]
    /\ target = [h \in HandlerIds |-> NoneRole]
    /\ exc = [h \in HandlerIds |-> NoExc]
    /\ ret = [h \in HandlerIds |-> NoReturn]
    /\ writes = 0
    /\ publishes = [h \in HandlerIds |-> 0]
    /\ loaded = [h \in HandlerIds |-> "no"]
    /\ NoCalls
    /\ thread = [t \in ThreadIds |-> IdleThread]
    /\ orch = [o \in OrchIds |-> IdleOrch]
    /\ events = <<>>
    /\ rowlock = [r \in ConcRoleIds |-> "none"]
    /\ runs = 0
    /\ partial_match = FALSE
    /\ connection = [c \in CacheObjects |-> NoConnection]
    /\ cache_call = NoCacheCall
    /\ cache_calls = 0
    /\ redis_failed = FALSE

\* the cache is enabled and the server holds no key
CacheUnused ==
    /\ ACCESS_CACHE_ENABLED = TRUE
    /\ redis = EmptyRedis
    /\ latest = [k \in PolicySlots |-> NoPolicy]

\* no concurrent request is served
InitState ==
    /\ InitProcess
    /\ store = EmptyStore
    /\ CacheUnused

Init ==
    /\ REPLICATION_TO_RELATION_ENABLED = TRUE
    /\ role_store = SeededRoleRows
    /\ InitState

(***************************************************************************)
(* The ORM operations the handler calls.                                   *)
(***************************************************************************)
\* role.binding_mapping: the row of the role, or BindingMapping.DoesNotExist
RoleBindingMapping(d, role) ==
    IF d.binding_mapping[role] = <<>> THEN [err |-> "DoesNotExist", row |-> NoMapping]
    ELSE [err |-> NoError, row |-> d.binding_mapping[role][1]]

\* BindingMapping.objects.create(role=, mappings=): one row per role
BindingMappingCreate(d, role, mappings) ==
    IF d.binding_mapping[role] # <<>> THEN [err |-> "IntegrityError", db |-> d]
    ELSE [err |-> NoError,
          db |-> [d EXCEPT !.binding_mapping[role] = Append(@, BindingMappingRow(role, mappings)),
                           !.upserts = @ + 1]]

\* binding_mapping.save(force_update=True): fails when the row is gone
BindingMappingSave(d, binding_mapping) ==
    IF d.binding_mapping[binding_mapping.role] = <<>> THEN [err |-> "DatabaseError", db |-> d]
    ELSE [err |-> NoError,
          db |-> [d EXCEPT !.binding_mapping[binding_mapping.role] =
                               [i \in DOMAIN @ |-> binding_mapping],
                           !.upserts = @ + 1]]

OutboxRow(aggregatetype, aggregateid, event_type, payload) ==
    [aggregatetype |-> aggregatetype, aggregateid |-> aggregateid,
     event_type |-> event_type, payload |-> payload]

\* Outbox.objects.create: the insert is also what the transaction log records
OutboxCreate(d, row) ==
    [d EXCEPT !.outbox = Append(@, row),
              !.wal = [n |-> @.n + 1,
                       last |-> [aggregatetype |-> row.aggregatetype,
                                 aggregateid |-> row.aggregateid,
                                 event_type |-> row.event_type,
                                 payload_empty |->
                                     row.payload.relations_to_add = {}
                                         /\ row.payload.relations_to_remove = {}]]]

\* outbox_record.delete()
OutboxDelete(d, row) == [d EXCEPT !.outbox = SelectSeq(@, LAMBDA x : x # row)]

(***************************************************************************)
(* RelationApiDualWriteHandler.  Each method is the set of its possible    *)
(* outcomes: the handler and database after it, the module globals, the    *)
(* exception raised inside it (raised), the one that escapes it (exc) and  *)
(* the event it returns.  fail names the database call that fails, if any. *)
(***************************************************************************)
FailPoints == {"none", "read_mapping", "migrate", "write_mapping", "outbox_insert", "outbox_delete"}

Outcome(hr, d, g, raised, e, event) ==
    [g |-> g, db |-> d, handler |-> hr, exc |-> e, event |-> event, raised |-> raised]

SetAttr(hr, names) == [hr EXCEPT !.attrs = @ \cup names]

\* __init__ (lines 40-53); role is NoneRole when the caller has no role
__init__(enabled, role, roles, event_type) ==
    IF ~enabled THEN Outcome(BlankHandler, <<>>, <<>>, NoError, NoExc, EmptyEvent)
    ELSE IF role = NoneRole
    THEN Outcome(SetAttr(BlankHandler,
                         {"role_relations", "current_role_relations", "role", "binding_mapping"}),
                 <<>>, <<>>, "AttributeError", DualWriteException("AttributeError"), EmptyEvent)
    ELSE Outcome([BlankHandler EXCEPT !.attrs = AllAttrs,
                                      !.role = role,
                                      !.tenant_id = roles[role].tenant_id,
                                      !.org_id = roles[role].org_id,
                                      !.event_type = event_type],
                 <<>>, <<>>, NoError, NoExc, EmptyEvent)

\* get_current_role_relations (lines 59-61)
get_current_role_relations(hr) ==
    IF "current_role_relations" \notin hr.attrs
    THEN [relations |-> {}, exc |-> RawException("AttributeError")]
    ELSE [relations |-> hr.current_role_relations, exc |-> NoExc]

\* lines 74-81, binding_mapping being assigned; m is what migrate_role returns
LoadMigrated(hr1, d, g, fail, m) ==
    IF "org_id" \notin hr1.attrs
    THEN {Outcome(hr1, d, g, "AttributeError", NoExc, EmptyEvent)}
    ELSE IF fail = "migrate"
    THEN {Outcome(hr1, d, g, "OperationalError", NoExc, EmptyEvent)}
    ELSE IF m.errs # {}
    THEN {Outcome(hr1, d, g, e, NoExc, EmptyEvent) : e \in m.errs}
    ELSE {Outcome([SetAttr(hr1, {"current_role_relations"})
                      EXCEPT !.current_role_relations = m.relations],
                  d, m.g, NoError, NoExc, EmptyEvent)}

\* variant of the try block below that returns at once in a handler whose
\* constructor found the flag off
LoadBodyFlagOfConstruction(hr, d, g, role_rows, fail, used) ==
    IF "role" \notin hr.attrs
    THEN {Outcome(hr, d, g, NoError, NoExc, EmptyEvent)}
    ELSE IF hr.role = NoneRole
    THEN {Outcome(hr, d, g, "AttributeError", NoExc, EmptyEvent)}
    ELSE IF fail = "read_mapping"
    THEN {Outcome(hr, d, g, "OperationalError", NoExc, EmptyEvent)}
    ELSE IF RoleBindingMapping(d, hr.role).err # NoError
    THEN {Outcome(hr, d, g, RoleBindingMapping(d, hr.role).err, NoExc, EmptyEvent)}
    ELSE LoadMigrated([SetAttr(hr, {"binding_mapping"})
                          EXCEPT !.binding_mapping = RoleBindingMapping(d, hr.role).row],
                      d, g, fail,
                      migrate_role(d.role[hr.role], hr.org_id,
                                   RoleBindingMapping(d, hr.role).row, g, role_rows, used))

\* the try block of load_relations_from_current_state_of_role (lines 68-81)
LoadBody(hr, d, g, role_rows, fail, used) ==
    IF "role" \notin hr.attrs \/ hr.role = NoneRole
    THEN {Outcome(hr, d, g, "AttributeError", NoExc, EmptyEvent)}
    ELSE IF fail = "read_mapping"
    THEN {Outcome(hr, d, g, "OperationalError", NoExc, EmptyEvent)}
    ELSE IF RoleBindingMapping(d, hr.role).err # NoError
    THEN {Outcome(hr, d, g, RoleBindingMapping(d, hr.role).err, NoExc, EmptyEvent)}
    ELSE LoadMigrated([SetAttr(hr, {"binding_mapping"})
                          EXCEPT !.binding_mapping = RoleBindingMapping(d, hr.role).row],
                      d, g, fail,
                      migrate_role(d.role[hr.role], hr.org_id,
                                   RoleBindingMapping(d, hr.role).row, g, role_rows, used))

\* variant of the method below in which a missing BindingMapping is an error
\* like any other
load_relations_missing_mapping_fatal(enabled, hr, d, g, role_rows, fail, used) ==
    IF ~enabled THEN {Outcome(hr, d, g, NoError, NoExc, EmptyEvent)}
    ELSE {[o EXCEPT !.exc = IF o.raised = NoError THEN NoExc ELSE DualWriteException(o.raised)]
          : o \in LoadBody(hr, d, g, role_rows, fail, used)}

\* lines 63-91
load_relations_from_current_state_of_role(enabled, hr, d, g, role_rows, fail, used) ==
    IF ~enabled THEN {Outcome(hr, d, g, NoError, NoExc, EmptyEvent)}
    ELSE {[o EXCEPT !.exc = IF o.raised \in {NoError, "DoesNotExist"} THEN NoExc
                            ELSE DualWriteException(o.raised)]
          : o \in LoadBody(hr, d, g, role_rows, fail, used)}

\* variant of the create-or-update below that assigns the new mappings to
\* the loaded instance and does not save it
UpsertMappingWithoutSave(hr, d, g, mappings, fail) ==
    IF hr.binding_mapping = NoMapping
    THEN IF fail = "write_mapping"
         THEN Outcome(hr, d, g, "OperationalError", NoExc, EmptyEvent)
         ELSE IF BindingMappingCreate(d, hr.role, mappings).err # NoError
         THEN Outcome(hr, d, g, BindingMappingCreate(d, hr.role, mappings).err, NoExc, EmptyEvent)
         ELSE Outcome([hr EXCEPT !.binding_mapping = BindingMappingRow(hr.role, mappings)],
                      BindingMappingCreate(d, hr.role, mappings).db, g, NoError, NoExc,
                      EmptyEvent)
    ELSE Outcome([hr EXCEPT !.binding_mapping.mappings = mappings], d, g, NoError, NoExc,
                 EmptyEvent)

\* the create-or-update of lines 128-132, after role_relations is assigned
UpsertMapping(hr, d, g, mappings, fail) ==
    IF hr.binding_mapping = NoMapping
    THEN IF fail = "write_mapping"
         THEN Outcome(hr, d, g, "OperationalError", NoExc, EmptyEvent)
         ELSE IF BindingMappingCreate(d, hr.role, mappings).err # NoError
         THEN Outcome(hr, d, g, BindingMappingCreate(d, hr.role, mappings).err, NoExc, EmptyEvent)
         ELSE Outcome([hr EXCEPT !.binding_mapping = BindingMappingRow(hr.role, mappings)],
                      BindingMappingCreate(d, hr.role, mappings).db, g, NoError, NoExc,
                      EmptyEvent)
    ELSE LET hr1 == [hr EXCEPT !.binding_mapping.mappings = mappings] IN
         IF fail = "write_mapping"
         THEN Outcome(hr1, d, g, "OperationalError", NoExc, EmptyEvent)
         ELSE IF BindingMappingSave(d, hr1.binding_mapping).err # NoError
         THEN Outcome(hr1, d, g, BindingMappingSave(d, hr1.binding_mapping).err, NoExc,
                      EmptyEvent)
         ELSE Outcome(hr1, BindingMappingSave(d, hr1.binding_mapping).db, g, NoError, NoExc,
                      EmptyEvent)

\* variant of the try block below that takes the new relations as the
\* current ones as well
GenerateMigratedAdoptingCurrent(hr, d, g, fail, m) ==
    IF hr.role = NoneRole \/ ~({"org_id", "binding_mapping"} \subseteq hr.attrs)
    THEN {Outcome(hr, d, g, "AttributeError", NoExc, EmptyEvent)}
    ELSE IF fail = "migrate"
    THEN {Outcome(hr, d, g, "OperationalError", NoExc, EmptyEvent)}
    ELSE IF m.errs # {}
    THEN {Outcome(hr, d, g, e, NoExc, EmptyEvent) : e \in m.errs}
    ELSE {UpsertMapping([SetAttr(hr, {"role_relations"})
                            EXCEPT !.role_relations = m.relations,
                                   !.current_role_relations = m.relations],
                        d, m.g, m.mappings, fail)}

\* the try block of _generate_relations_and_mappings_for_role (lines 117-134)
GenerateMigrated(hr, d, g, fail, m) ==
    IF hr.role = NoneRole \/ ~({"org_id", "binding_mapping"} \subseteq hr.attrs)
    THEN {Outcome(hr, d, g, "AttributeError", NoExc, EmptyEvent)}
    ELSE IF fail = "migrate"
    THEN {Outcome(hr, d, g, "OperationalError", NoExc, EmptyEvent)}
    ELSE IF m.errs # {}
    THEN {Outcome(hr, d, g, e, NoExc, EmptyEvent) : e \in m.errs}
    ELSE {UpsertMapping([SetAttr(hr, {"role_relations"}) EXCEPT !.role_relations = m.relations],
                        d, m.g, m.mappings, fail)}

\* m is what migrate_role returns (lines 118-123)
GenerateBody(hr, d, g, role_rows, fail, used) ==
    GenerateMigrated(hr, d, g, fail,
                     migrate_role(d.role[hr.role], hr.org_id, hr.binding_mapping, g, role_rows,
                                  used))

\* variant of the method below that lets the exception of its try block
\* escape as it is
generate_relations_unwrapped(enabled, hr, d, g, role_rows, fail, used) ==
    IF ~enabled THEN {Outcome(hr, d, g, NoError, NoExc, EmptyEvent)}
    ELSE {[o EXCEPT !.exc = IF o.raised = NoError THEN NoExc ELSE RawException(o.raised)]
          : o \in GenerateBody(hr, d, g, role_rows, fail, used)}

\* lines 112-136
_generate_relations_and_mappings_for_role(enabled, hr, d, g, role_rows, fail, used) ==
    IF ~enabled THEN {Outcome(hr, d, g, NoError, NoExc, EmptyEvent)}
    ELSE {[o EXCEPT !.exc = IF o.raised = NoError THEN NoExc ELSE DualWriteException(o.raised)]
          : o \in GenerateBody(hr, d, g, role_rows, fail, used)}

\* variant of the method below whose event removes nothing
build_replication_event_adding_only(enabled, hr) ==
    IF ~enabled THEN [event |-> EmptyEvent, raised |-> NoError]
    ELSE IF ~({"role", "role_relations", "current_role_relations"} \subseteq hr.attrs)
            \/ hr.role = NoneRole
    THEN [event |-> EmptyEvent, raised |-> "AttributeError"]
    ELSE [event |-> [relations_to_add |->
                        {relationship_to_json(relation) : relation \in hr.role_relations},
                     relations_to_remove |-> {}],
          raised |-> NoError]

\* _build_replication_event (lines 138-152)
_build_replication_event(enabled, hr) ==
    IF ~enabled THEN [event |-> EmptyEvent, raised |-> NoError]
    ELSE IF ~({"role", "role_relations", "current_role_relations"} \subseteq hr.attrs)
            \/ hr.role = NoneRole
    THEN [event |-> EmptyEvent, raised |-> "AttributeError"]
    ELSE [event |-> [relations_to_add |->
                        {relationship_to_json(relation) : relation \in hr.role_relations},
                     relations_to_remove |->
                        {relationship_to_json(relation) : relation \in hr.current_role_relations}],
          raised |-> NoError]

\* variant of the method below that inserts the outbox row and leaves it
save_replication_event_without_delete(enabled, hr, d, replication_event, fail) ==
    LET outbox_record == OutboxRow("Role", hr.role, hr.event_type, replication_event) IN
    IF ~enabled THEN [db |-> d, raised |-> NoError]
    ELSE IF ~({"role", "event_type"} \subseteq hr.attrs) \/ hr.role = NoneRole
    THEN [db |-> d, raised |-> "AttributeError"]
    ELSE IF fail = "outbox_insert" THEN [db |-> d, raised |-> "OperationalError"]
    ELSE [db |-> OutboxCreate(d, outbox_record), raised |-> NoError]

\* variant of the method below that publishes every event as an UPDATE
save_replication_event_as_update(enabled, hr, d, replication_event, fail) ==
    LET outbox_record == OutboxRow("Role", hr.role, "UPDATE", replication_event) IN
    IF ~enabled THEN [db |-> d, raised |-> NoError]
    ELSE IF ~({"role", "event_type"} \subseteq hr.attrs) \/ hr.role = NoneRole
    THEN [db |-> d, raised |-> "AttributeError"]
    ELSE IF fail = "outbox_insert" THEN [db |-> d, raised |-> "OperationalError"]
    ELSE IF fail = "outbox_delete"
    THEN [db |-> OutboxCreate(d, outbox_record), raised |-> "OperationalError"]
    ELSE [db |-> OutboxDelete(OutboxCreate(d, outbox_record), outbox_record), raised |-> NoError]

\* _save_replication_event (lines 154-168): the database after it and the
\* exception it raises
_save_replication_event(enabled, hr, d, replication_event, fail) ==
    LET outbox_record == OutboxRow("Role", hr.role, hr.event_type, replication_event) IN
    IF ~enabled THEN [db |-> d, raised |-> NoError]
    ELSE IF ~({"role", "event_type"} \subseteq hr.attrs) \/ hr.role = NoneRole
    THEN [db |-> d, raised |-> "AttributeError"]
    ELSE IF fail = "outbox_insert" THEN [db |-> d, raised |-> "OperationalError"]
    ELSE IF fail = "outbox_delete"
    THEN [db |-> OutboxCreate(d, outbox_record), raised |-> "OperationalError"]
    ELSE [db |-> OutboxDelete(OutboxCreate(d, outbox_record), outbox_record), raised |-> NoError]

\* variant of the method below that logs a failure of the outbox write and
\* returns the event
save_replication_event_to_outbox_swallowing(enabled, hr, d, g, fail) ==
    LET built == _build_replication_event(enabled, hr)
        saved == _save_replication_event(enabled, hr, d, built.event, fail)
    IN
    IF ~enabled THEN Outcome(hr, d, g, NoError, NoExc, EmptyEvent)
    ELSE IF built.raised # NoError
    THEN Outcome(hr, d, g, built.raised, DualWriteException(built.raised), EmptyEvent)
    ELSE Outcome(hr, saved.db, g, NoError, NoExc, built.event)

\* lines 101-110
save_replication_event_to_outbox(enabled, hr, d, g, fail) ==
    LET built == _build_replication_event(enabled, hr)
        saved == _save_replication_event(enabled, hr, d, built.event, fail)
    IN
    IF ~enabled THEN Outcome(hr, d, g, NoError, NoExc, EmptyEvent)
    ELSE IF built.raised # NoError
    THEN Outcome(hr, d, g, built.raised, DualWriteException(built.raised), EmptyEvent)
    ELSE IF saved.raised # NoError
    THEN Outcome(hr, saved.db, g, saved.raised, DualWriteException(saved.raised), EmptyEvent)
    ELSE Outcome(hr, saved.db, g, NoError, NoExc, built.event)

\* variant of the method below that never consults the flag
generate_replication_event_ignoring_flag(enabled, hr, d, g, role, role_rows, fail, used) ==
    {IF o.exc # NoExc THEN o
     ELSE save_replication_event_to_outbox(TRUE, o.handler, o.db, o.g, fail)
     : o \in _generate_relations_and_mappings_for_role(
                 TRUE, [SetAttr(hr, {"role"}) EXCEPT !.role = role], d, g, role_rows,
                 fail, used)}

\* lines 93-99
generate_replication_event_to_outbox(enabled, hr, d, g, role, role_rows, fail, used) ==
    IF ~enabled THEN {Outcome(hr, d, g, NoError, NoExc, EmptyEvent)}
    ELSE {IF o.exc # NoExc THEN o
          ELSE save_replication_event_to_outbox(enabled, o.handler, o.db, o.g, fail)
          : o \in _generate_relations_and_mappings_for_role(
                      enabled, [SetAttr(hr, {"role"}) EXCEPT !.role = role], d, g, role_rows,
                      fail, used)}

(***************************************************************************)
(* Actions.  A caller opens a transaction, constructs a handler for the    *)
(* role it writes, loads, changes the role, publishes, and commits; when   *)
(* an operation raises, it rolls the transaction back.                     *)
(***************************************************************************)
InTransaction(h) == pc[h] \in {"constructed", "loaded", "published"}

Finish(h, o, op, kind, nextpc) ==
    /\ handler' = [handler EXCEPT ![h] = o.handler]
    /\ exc' = [exc EXCEPT ![h] = o.exc]
    /\ ret' = [ret EXCEPT ![h] = Return(op, IF o.exc = NoExc THEN kind ELSE "raised",
                                       o.event, {}, o.raised)]
    /\ pc' = [pc EXCEPT ![h] = IF o.exc = NoExc THEN nextpc ELSE "failed"]

SetGlobals(g) ==
    /\ SYSTEM_ROLES' = g.SYSTEM_ROLES
    /\ candidate_system_roles' = g.candidate_system_roles
    /\ custom_roles_created' = g.custom_roles_created

\* handler = RelationApiDualWriteHandler(role, event_type), in a new transaction
Construct(h, role, event_type) ==
    /\ pc[h] = "idle"
    /\ writes < MaxWrites
    /\ writes' = writes + 1
    /\ target' = [target EXCEPT ![h] = role]
    /\ publishes' = [publishes EXCEPT ![h] = 0]
    /\ loaded' = [loaded EXCEPT ![h] = "no"]
    /\ Finish(h, __init__(REPLICATION_TO_RELATION_ENABLED, role, db.role, event_type),
              "init", "none", "constructed")
    /\ UNCHANGED <<REPLICATION_TO_RELATION_ENABLED, callVars, concVars, translationVars, dbVars>>

\* handler.load_relations_from_current_state_of_role()
Load(h, fail) ==
    /\ pc[h] = "constructed"
    /\ \E o \in load_relations_from_current_state_of_role(
                    REPLICATION_TO_RELATION_ENABLED, handler[h], db, Globals,
                    role_store, fail, UsedUuids) :
          /\ Finish(h, o, "load", "none", "loaded")
          /\ SetGlobals(o.g)
          /\ db' = o.db
          /\ loaded' = [loaded EXCEPT ![h] =
                           IF ~REPLICATION_TO_RELATION_ENABLED THEN @
                           ELSE IF o.raised = "DoesNotExist" THEN "missing"
                           ELSE IF o.raised = NoError THEN "found" ELSE @]
    /\ UNCHANGED <<REPLICATION_TO_RELATION_ENABLED, callVars, concVars, committed, target, writes, publishes>>

\* handler.get_current_role_relations()
GetCurrent(h) ==
    /\ pc[h] \in {"constructed", "loaded"}
    /\ LET r == get_current_role_relations(handler[h]) IN
          /\ exc' = [exc EXCEPT ![h] = r.exc]
          /\ ret' = [ret EXCEPT ![h] =
                        Return("get_current", IF r.exc = NoExc THEN "relations" ELSE "raised",
                               EmptyEvent, r.relations,
                               IF r.exc = NoExc THEN NoError ELSE r.exc.type)]
          /\ pc' = [pc EXCEPT ![h] = IF r.exc = NoExc THEN @ ELSE "failed"]
    /\ UNCHANGED <<REPLICATION_TO_RELATION_ENABLED, callVars, concVars, translationVars, dbVars, handler, target,
                   writes, publishes, loaded>>

\* the legacy write of the caller: the role's access and groups change
Mutate(h, access, groups) ==
    /\ pc[h] \in {"constructed", "loaded"}
    /\ target[h] # NoneRole
    /\ db' = [db EXCEPT !.role[target[h]].access = access, !.role[target[h]].groups = groups]
    /\ db' # db
    /\ UNCHANGED <<REPLICATION_TO_RELATION_ENABLED, callVars, concVars, translationVars, committed, handlerVars>>

CountPublish(d, o) ==
    IF REPLICATION_TO_RELATION_ENABLED /\ o.exc = NoExc
    THEN [d EXCEPT !.ok_publishes = @ + 1] ELSE d

\* handler.generate_replication_event_to_outbox(role)
Generate(h, fail) ==
    /\ InTransaction(h)
    /\ publishes[h] < MaxPublishes
    /\ publishes' = [publishes EXCEPT ![h] = @ + 1]
    /\ \E o \in generate_replication_event_to_outbox(
                    REPLICATION_TO_RELATION_ENABLED, handler[h], db, Globals, target[h],
                    role_store, fail, UsedUuids) :
          /\ Finish(h, o, "generate",
                    IF REPLICATION_TO_RELATION_ENABLED THEN "event" ELSE "none", "published")
          /\ SetGlobals(o.g)
          /\ db' = CountPublish(o.db, o)
    /\ UNCHANGED <<REPLICATION_TO_RELATION_ENABLED, callVars, concVars, committed, target, writes, loaded>>

\* handler.save_replication_event_to_outbox()
Save(h, fail) ==
    /\ pc[h] \in {"loaded", "published"}
    /\ publishes[h] < MaxPublishes
    /\ publishes' = [publishes EXCEPT ![h] = @ + 1]
    /\ LET o == save_replication_event_to_outbox(
                    REPLICATION_TO_RELATION_ENABLED, handler[h], db, Globals, fail) IN
          /\ Finish(h, o, "save",
                    IF REPLICATION_TO_RELATION_ENABLED THEN "event" ELSE "empty_dict",
                    "published")
          /\ db' = [CountPublish(o.db, o) EXCEPT !.direct_inserts = @ + (o.db.wal.n - db.wal.n)]
    /\ UNCHANGED <<REPLICATION_TO_RELATION_ENABLED, callVars, concVars, translationVars, committed, target, writes,
                   loaded>>

\* The database a commit leaves.  The log of the transaction is shipped and
\* its counts start again; what the committed transactions left unbalanced
\* is kept: unpaired, the outbox inserts less the mapping upserts and the
\* inserts of save_replication_event_to_outbox called alone; unpublished, the
\* outbox inserts less the publishes that returned.
Settled(d) ==
    [d EXCEPT !.wal = NoWal,
              !.upserts = 0,
              !.direct_inserts = 0,
              !.ok_publishes = 0,
              !.unpaired = @ + (d.wal.n - d.upserts - d.direct_inserts),
              !.unpublished = @ + (d.wal.n - d.ok_publishes)]

\* the caller's transaction commits and the handler is dropped
Commit(h) ==
    /\ InTransaction(h)
    /\ committed' = Settled(db)
    /\ db' = Settled(db)
    /\ pc' = [pc EXCEPT ![h] = "idle"]
    /\ handler' = [handler EXCEPT ![h] = BlankHandler]
    /\ ret' = [ret EXCEPT ![h] = NoReturn]
    /\ target' = [target EXCEPT ![h] = NoneRole]
    /\ publishes' = [publishes EXCEPT ![h] = 0]
    /\ loaded' = [loaded EXCEPT ![h] = "no"]
    /\ UNCHANGED <<REPLICATION_TO_RELATION_ENABLED, callVars, concVars, translationVars, exc, writes>>

\* an operation raised: the caller's transaction is rolled back
Rollback(h) ==
    /\ pc[h] = "failed"
    /\ db' = committed
    /\ pc' = [pc EXCEPT ![h] = "idle"]
    /\ handler' = [handler EXCEPT ![h] = BlankHandler]
    /\ exc' = [exc EXCEPT ![h] = NoExc]
    /\ ret' = [ret EXCEPT ![h] = NoReturn]
    /\ target' = [target EXCEPT ![h] = NoneRole]
    /\ publishes' = [publishes EXCEPT ![h] = 0]
    /\ loaded' = [loaded EXCEPT ![h] = "no"]
    /\ UNCHANGED <<REPLICATION_TO_RELATION_ENABLED, callVars, concVars, translationVars, committed, writes>>

Next ==
    \/ \E h \in HandlerIds, role \in RoleIds \cup {NoneRole}, et \in EventTypes :
          Construct(h, role, et)
    \/ \E h \in HandlerIds, fail \in {"none", "read_mapping", "migrate"} : Load(h, fail)
    \/ \E h \in HandlerIds : GetCurrent(h)
    \/ \E h \in HandlerIds, access \in AccessChoices, groups \in GroupChoices :
          Mutate(h, access, groups)
    \/ \E h \in HandlerIds, fail \in FailPoints \ {"read_mapping"} : Generate(h, fail)
    \/ \E h \in HandlerIds, fail \in {"none", "outbox_insert", "outbox_delete"} : Save(h, fail)
    \/ \E h \in HandlerIds : Commit(h)
    \/ \E h \in HandlerIds : Rollback(h)

Spec == Init /\ [][Next]_vars

(***************************************************************************)
(* The same callers in an environment whose flag is on or off at the start *)
(* and can change between two operations: replication_enabled reads the    *)
(* environment at every call.                                              *)
(***************************************************************************)
InitToggle ==
    /\ REPLICATION_TO_RELATION_ENABLED \in BOOLEAN
    /\ role_store = SeededRoleRows
    /\ InitState

ToggleFlag ==
    /\ REPLICATION_TO_RELATION_ENABLED' = ~REPLICATION_TO_RELATION_ENABLED
    /\ UNCHANGED <<translationVars, dbVars, handlerVars, callVars, concVars>>

NextToggle ==
    \/ Next
    \/ ToggleFlag

SpecToggle == InitToggle /\ [][NextToggle]_vars

(***************************************************************************)
(* The translation functions called directly, in one process: the role     *)
(* store is any of StoreChoices, and every call takes its input from the   *)
(* choices below.                                                          *)
(***************************************************************************)
MaxCalls == 2

G2 == [id |-> "G2", users |-> {"bob"}]

\* V2 permissions
PX == <<"app", Underscore, "x", Underscore, "read">>
PY == <<"app", Underscore, "y", Underscore, "write">>
PZ == <<"other", Underscore, "z", Underscore, "read">>

SystemRow(id, access) ==
    [uuid |-> id, access |-> access, external_role_id |-> FALSE, system |-> TRUE]

\* role stores: the seeded one; an empty one; one whose only system role has
\* an external role id; S1 and S3 that cover {PX, PY} together; S1 and S4
\* with the same permissions; S1 and S5, S5 granting what S1 grants and more,
\* beside a role that is not a system role; S5 before S1 and S6, S1 granting
\* nothing S5 does not grant
StoreChoices ==
    { SeededRoleRows,
      <<>>,
      << SeededRoleRows[2] >>,
      << SystemRow("S1", {<<"app", ":", "x", ":", "read">>}),
         SystemRow("S3", {<<"app", ":", "y", ":", "write">>}) >>,
      << SystemRow("S1", {<<"app", ":", "x", ":", "read">>}),
         SystemRow("S4", {<<"App", ":", "X", ":", "Read">>}) >>,
      << SystemRow("S1", {<<"app", ":", "x", ":", "read">>}),
         [uuid |-> "R9", access |-> {<<"other", ":", "z", ":", "read">>}, external_role_id |-> FALSE,
          system |-> FALSE],
         SystemRow("S5", {<<"app", ":", "x", ":", "read">>, <<"app", ":", "y", ":", "write">>}) >>,
      << SystemRow("S5", {<<"app", ":", "x", ":", "read">>, <<"app", ":", "y", ":", "write">>}),
         SystemRow("S1", {<<"app", ":", "x", ":", "read">>}),
         SystemRow("S6", {<<"other", ":", "z", ":", "read">>}) >> }

\* perm_groupings: permissions granted on W1 alone, or on W1 and on W2
W2 == StrVal(<<"W2">>)
PermSetChoices == {{PX}, {PY}, {PX, PY}, {PX, PY, PZ}}
PermGroupingChoices ==
    {[res \in {V2boundresource(WorkspaceType, W1)} |-> P] : P \in PermSetChoices}
        \cup {[res \in {V2boundresource(WorkspaceType, W1), V2boundresource(WorkspaceType, W2)}
                  |-> IF res.resource_id = W1 THEN P ELSE Q]
               : P \in PermSetChoices, Q \in {{PX}, {PX, PY}}}

\* resource definitions
IdLiterals ==
    { <<"[", "1", Comma, "2", Comma, "3", "]">>,
      <<"1", Comma, "2", Comma, "3">>,
      <<"[", "]">>,
      <<"7">>,
      <<Quote, "a", "b", Quote>>,
      <<"null">>,
      <<"a", Comma, "b">> }
ResourceDefChoices ==
    {[op |-> op, resource_id |-> lit, resource_type |-> <<"app", Dot, "thing">>]
        : op \in {"in", "equal"}, lit \in IdLiterals}

\* legacy roles
PermOnList ==
    [perm |-> <<"read">>, app |-> <<"app">>, resource |-> <<"x">>,
     resourceDefs |-> {[op |-> "in", resource_id |-> <<"[", "1", Comma, "2", "]">>,
                        resource_type |-> <<"app", Dot, "thing">>]}]
\* a permission of an application on the skipped list
PermSkipped ==
    [perm |-> <<"read">>, app |-> <<"approval">>, resource |-> <<"requests">>, resourceDefs |-> {}]
\* inventory:groups:read on a group id: null, a list with a null element,
\* and null under the operator "in"
InventoryDefChoices ==
    { [op |-> "equal", resource_id |-> <<"null">>, resource_type |-> <<"group", Dot, "id">>],
      [op |-> "in", resource_id |-> <<"[", "null", Comma, "7", "]">>,
       resource_type |-> <<"group", Dot, "id">>],
      [op |-> "in", resource_id |-> <<"null">>, resource_type |-> <<"group", Dot, "id">>] }
PermInventory(resource_def) ==
    [perm |-> <<"read">>, app |-> <<"inventory">>, resource |-> <<"groups">>,
     resourceDefs |-> {resource_def}]
V1roleChoices ==
    {[permissions |-> a, id |-> "R1", groups |-> gs]
        : a \in AccessChoices \cup {{PermOnList}, {PermXRead, PermOnList}},
          gs \in {{}, {G1}, {G1, G2}}}
      \cup {[permissions |-> a, id |-> "R1", groups |-> {G1}]
               : a \in {{PermSkipped}, {PermXRead, PermSkipped}}
                          \cup {{PermInventory(rd)} : rd \in InventoryDefChoices}}

\* the ids of the legacy roles extract_system_roles is called for
ExtractRoleIds == {"R1", "R2"}

\* the identifiers the caller of the last call still holds
UuidsOfCall(c) ==
    IF c.op = "extract" THEN {pr[1].id : pr \in c.resource_roles}
    ELSE IF c.op = "mapping"
    THEN UuidsOfBindings(c.bindings) \cup {pr[1].id : pr \in c.resource_roles}
    ELSE {}

CustomRolesIn(resource_roles) == {pr[1] : pr \in {q \in resource_roles : ~q[1].is_system}}

\* what every direct call does to the counts: each of them calls
\* get_system_roles once, and set_system_roles runs when it finds the
\* registry empty (lines 76-77)
CountCall(resource_roles) ==
    /\ calls < MaxCalls
    /\ calls' = calls + 1
    /\ populations' = populations + (IF SYSTEM_ROLES = <<>> THEN 1 ELSE 0)
    /\ synthesized' = synthesized + Cardinality(CustomRolesIn(resource_roles))

OnlyCallsChange ==
    UNCHANGED <<REPLICATION_TO_RELATION_ENABLED, dbVars, handlerVars, role_store, concVars>>

\* SystemRole.get_system_roles()
RecordGetSystemRoles(registry) ==
    /\ CountCall({})
    /\ call' = [op |-> "get_system_roles", registry |-> registry, before |-> SYSTEM_ROLES]
    /\ SYSTEM_ROLES' = registry
    /\ UNCHANGED <<candidate_system_roles, custom_roles_created>>
    /\ OnlyCallsChange

CallGetSystemRoles == RecordGetSystemRoles(get_system_roles(SYSTEM_ROLES, role_store))

\* extract_system_roles(perm_groupings, v1_role)
RecordExtract(perm_groupings, v1_role, ex) ==
    /\ CountCall(ex.resource_roles)
    /\ call' = [op |-> "extract", v1_role |-> v1_role, resource_roles |-> ex.resource_roles,
                perm_groupings |-> perm_groupings, registry |-> ex.SYSTEM_ROLES,
                before |-> Globals]
    /\ SetGlobals(ex)
    /\ OnlyCallsChange

CallExtract(perm_groupings, v1_role) ==
    RecordExtract(perm_groupings, v1_role,
                  extract_system_roles(perm_groupings, v1_role, Globals, role_store,
                                       UsedUuids \cup UuidsOfCall(call)))

\* v1_role_to_v2_mapping(v1_role, root_workspace, default_workspace); when it
\* raises, the exception is any of res.errs and the registry is not read
RecordMapping(v1_role, res) ==
    /\ calls < MaxCalls
    /\ calls' = calls + 1
    /\ populations' = populations + (IF res.errs = {} /\ SYSTEM_ROLES = <<>> THEN 1 ELSE 0)
    /\ synthesized' = synthesized + Cardinality(CustomRolesIn(res.resource_roles))
    /\ call' = [op |-> "mapping", v1_role |-> v1_role, resource_roles |-> res.resource_roles,
                errs |-> res.errs, bindings |-> res.bindings,
                before |-> Globals]
    /\ SetGlobals(res.g)
    /\ OnlyCallsChange

CallMapping(v1_role) ==
    RecordMapping(v1_role,
                  v1_role_to_v2_mapping(v1_role, W1, OrgId, Globals, role_store,
                                        UsedUuids \cup UuidsOfCall(call)))

\* split_resourcedef_literal(resourceDef)
RecordSplit(resourceDef, res) ==
    /\ calls < MaxCalls
    /\ calls' = calls + 1
    /\ call' = [op |-> "split", err |-> res.err, ids |-> res.ids, resourceDef |-> resourceDef]
    /\ UNCHANGED <<translationVars, populations, synthesized>>
    /\ OnlyCallsChange

CallSplit(resourceDef) == RecordSplit(resourceDef, split_resourcedef_literal(resourceDef))

InitTranslation ==
    /\ REPLICATION_TO_RELATION_ENABLED = TRUE
    /\ role_store \in StoreChoices
    /\ InitState

NextTranslation ==
    \/ CallGetSystemRoles
    \/ \E pg \in PermGroupingChoices, id \in ExtractRoleIds :
          CallExtract(pg, [permissions |-> {}, id |-> id, groups |-> {}])
    \/ \E v1_role \in V1roleChoices : CallMapping(v1_role)
    \/ \E rd \in ResourceDefChoices : CallSplit(rd)

SpecTranslation == InitTranslation /\ [][NextTranslation]_vars

(***************************************************************************)
(* The matcher called by the threads of one process.  SYSTEM_ROLES and the *)
(* module globals are shared without a lock (lines 71, 150-151); a step is *)
(* what one thread does between two accesses of the shared registry.       *)
(***************************************************************************)
MaxThreadCalls == 2

\* role stores: the seeded one, S1 and S3, and S5 before S1 and S6
RegistryStoreChoices ==
    { SeededRoleRows,
      << SystemRow("S1", {<<"app", ":", "x", ":", "read">>}),
         SystemRow("S3", {<<"app", ":", "y", ":", "write">>}) >>,
      << SystemRow("S5", {<<"app", ":", "x", ":", "read">>, <<"app", ":", "y", ":", "write">>}),
         SystemRow("S1", {<<"app", ":", "x", ":", "read">>}),
         SystemRow("S6", {<<"other", ":", "z", ":", "read">>}) >> }

\* perm_groupings of one resource
ThreadGroupingChoices ==
    {[res \in {V2boundresource(WorkspaceType, W1)} |-> P] : P \in {{PY}, {PX, PY}}}

\* the registry once set_system_roles has run to its end
FullRegistry == set_system_roles(<<>>, SystemRowsOf(role_store))

\* the identifiers the threads hold
UuidsOfThreads == UNION {{pr[1].id : pr \in thread[t].resource_roles} : t \in ThreadIds}

OnlyThreadsChange ==
    UNCHANGED <<REPLICATION_TO_RELATION_ENABLED, dbVars, handlerVars, callVars, orchVars,
                cacheVars>>

\* line 157 and line 76: the thread calls get_system_roles and tests the
\* registry
ThreadGetSystemRoles(t, perm_groupings) ==
    /\ thread[t].pc \in {"idle", "done"}
    /\ thread[t].n < MaxThreadCalls
    /\ thread' = [thread EXCEPT ![t] =
                     [IdleThread EXCEPT !.pc = IF SYSTEM_ROLES = <<>> THEN "set_system_roles"
                                              ELSE "matching",
                                        !.perm_groupings = perm_groupings,
                                        !.n = thread[t].n + 1]]
    /\ UNCHANGED translationVars
    /\ OnlyThreadsChange

\* variant of the start of set_system_roles below that empties the registry
BeginPopulationCleared(system_roles) == <<>>

\* the registry as set_system_roles finds and keeps it when it starts
BeginPopulation(system_roles) == system_roles

\* line 83: the query of the system roles
ThreadQueryRoles(t) ==
    /\ thread[t].pc = "set_system_roles"
    /\ thread' = [thread EXCEPT ![t].pc = "populating",
                                ![t].rows = SystemRowsOf(role_store)]
    /\ SYSTEM_ROLES' = BeginPopulation(SYSTEM_ROLES)
    /\ UNCHANGED <<candidate_system_roles, custom_roles_created>>
    /\ OnlyThreadsChange

\* lines 85-92: one iteration of the loop of set_system_roles
ThreadAddSystemRole(t) ==
    /\ thread[t].pc = "populating"
    /\ thread[t].rows # <<>>
    /\ thread' = [thread EXCEPT ![t].rows = Tail(@)]
    /\ SYSTEM_ROLES' = IF Head(thread[t].rows).external_role_id THEN SYSTEM_ROLES
                       ELSE add_system_role(SYSTEM_ROLES, SystemRoleOfRow(Head(thread[t].rows)))
    /\ UNCHANGED <<candidate_system_roles, custom_roles_created>>
    /\ OnlyThreadsChange

\* line 78: set_system_roles is over and get_system_roles returns
ThreadReturnSystemRoles(t) ==
    /\ thread[t].pc = "populating"
    /\ thread[t].rows = <<>>
    /\ thread' = [thread EXCEPT ![t].pc = "matching"]
    /\ UNCHANGED translationVars
    /\ OnlyThreadsChange

\* what extract_system_roles leaves when it matched against a registry
ThreadMatched(t, ex) ==
    /\ thread' = [thread EXCEPT ![t].pc = "done",
                                ![t].seen = ex.SYSTEM_ROLES,
                                ![t].raced = \E u \in ThreadIds \ {t} :
                                                thread[u].pc = "populating",
                                ![t].resource_roles = ex.resource_roles]
    /\ candidate_system_roles' = ex.candidate_system_roles
    /\ custom_roles_created' = ex.custom_roles_created
    /\ UNCHANGED SYSTEM_ROLES
    /\ OnlyThreadsChange

\* lines 158-210 on the registry as it stands: the lookups of lines 159-161
\* and the loop of lines 168-176 take the registry in the state another
\* thread's set_system_roles has brought it to
ThreadMatch(t) ==
    /\ thread[t].pc = "matching"
    /\ ThreadMatched(t, ExtractWithRegistry(thread[t].perm_groupings,
                                            [permissions |-> {}, id |-> "R1", groups |-> {}],
                                            Globals, SYSTEM_ROLES,
                                            UsedUuids \cup UuidsOfThreads))

\* line 168: the registry grows under the loop that iterates it, and the
\* iteration raises RuntimeError
ThreadIterationFails(t) ==
    /\ thread[t].pc = "matching"
    /\ thread[t].perm_groupings[V2boundresource(WorkspaceType, W1)] \notin RegistryKeys(SYSTEM_ROLES)
    /\ \E u \in ThreadIds \ {t} :
          /\ thread[u].pc = "populating"
          /\ thread[u].rows # <<>>
          /\ ~Head(thread[u].rows).external_role_id
          /\ SystemRoleOfRow(Head(thread[u].rows)).permissions \notin RegistryKeys(SYSTEM_ROLES)
    /\ thread' = [thread EXCEPT ![t].pc = "done",
                                ![t].seen = SYSTEM_ROLES,
                                ![t].raced = TRUE,
                                ![t].err = "RuntimeError"]
    /\ UNCHANGED translationVars
    /\ OnlyThreadsChange

InitRegistry ==
    /\ REPLICATION_TO_RELATION_ENABLED = TRUE
    /\ role_store \in RegistryStoreChoices
    /\ InitState

NextRegistry ==
    \E t \in ThreadIds :
        \/ \E pg \in ThreadGroupingChoices : ThreadGetSystemRoles(t, pg)
        \/ ThreadQueryRoles(t)
        \/ ThreadAddSystemRole(t)
        \/ ThreadReturnSystemRoles(t)
        \/ ThreadMatch(t)
        \/ ThreadIterationFails(t)

SpecRegistry == InitRegistry /\ [][NextRegistry]_vars

(***************************************************************************)
(* Orchestrations of concurrent requests.  Each request constructs a       *)
(* handler, loads, changes its role and publishes in a transaction of its  *)
(* own; the handler takes no lock, and the requests share the module       *)
(* globals of the process.  A step is one statement of an orchestration.   *)
(* The database is read committed: the transaction that changed a role     *)
(* holds the lock of the role's rows until it ends, and another            *)
(* transaction reads or writes them before or after it.                    *)
(***************************************************************************)
MaxRuns == 2

\* S1 grants app:x:read and S3 app:y:write
ConcRoleStore ==
    << SystemRow("S1", {<<"app", ":", "x", ":", "read">>}),
       SystemRow("S3", {<<"app", ":", "y", ":", "write">>}) >>

ConcAccessChoices == {{PermXRead, PermYWrite}, {PermYWrite}}

\* the globals of a process whose registry is populated
PopulatedGlobals(role_rows) ==
    [candidate_system_roles |-> <<>>, custom_roles_created |-> 0,
     SYSTEM_ROLES |-> set_system_roles(<<>>, SystemRowsOf(role_rows))]

\* the BindingMapping row an earlier orchestration left for a role
SeededMapping(role) ==
    BindingMappingRow(role,
                      migrate_role(ConcRoleRows[role], OrgId, NoMapping,
                                   PopulatedGlobals(ConcRoleStore), ConcRoleStore, {}).mappings)

\* no mapping stored, or the mapping of role A stored
ConcStoreChoices ==
    { EmptyStore,
      StoreWith([r \in ConcRoleIds |-> IF r = "A" THEN <<SeededMapping(r)>> ELSE <<>>]) }

\* variant of the order below that inserts the outbox row before the
\* mapping is upserted
StatementOrderInsertFirst ==
    <<"init", "read_mapping", "migrate_current", "mutate", "compute", "insert", "upsert",
      "delete">>

\* the statements of one orchestration in the order the code issues them:
\* __init__, line 72, lines 74-79, the caller's write, lines 119-124,
\* lines 128-132, lines 165-167, line 168
StatementOrder ==
    <<"init", "read_mapping", "migrate_current", "mutate", "compute", "upsert", "insert",
      "delete">>

\* the statement that follows statement p
Successor(p) ==
    IF \E i \in 1..(Len(StatementOrder) - 1) : StatementOrder[i] = p
    THEN StatementOrder[(CHOOSE i \in 1..(Len(StatementOrder) - 1) : StatementOrder[i] = p) + 1]
    ELSE "none"

\* every identifier the concurrent requests hold
UuidsOfStore(d) == UNION {UuidsOfRows(d.binding_mapping[r]) : r \in ConcRoleIds}
UsedByOrchs ==
    UuidsOfStore(store)
        \cup UNION {UuidsOfHandler(orch[o].handler) \cup UuidsOfBindings(orch[o].mappings)
                      : o \in OrchIds}

\* the relations of the BindingMapping stored for a role, by structure
RelationKeys(relations) == {[permissions |-> j.relation.permissions,
                             is_system |-> j.relation.is_system,
                             role_id |-> IF j.relation.is_system THEN j.relation.role_id ELSE "",
                             object |-> j.object,
                             subject |-> j.subject]
                            : j \in {relationship_to_json(r) : r \in relations}}
MappingKeys(rows) ==
    UNION {RelationKeys({Relationship(b) : b \in rows[i].mappings}) : i \in DOMAIN rows}

OnlyOrchsChange ==
    UNCHANGED <<REPLICATION_TO_RELATION_ENABLED, dbVars, handlerVars, callVars, thread,
                cacheVars>>

Did(o, statement, rec) ==
    orch' = [orch EXCEPT ![o] = [rec EXCEPT !.pc = statement,
                                            !.steps = Append(@, statement)]]

\* what every migrate_role of an orchestration leaves in the globals
Migrated(g) ==
    /\ SetGlobals(g)
    /\ partial_match' = (partial_match \/ SYSTEM_ROLES # FullRegistry)

\* a request starts: RelationApiDualWriteHandler(role, event_type)
OConstruct(o, role) ==
    /\ orch[o].pc \in {"idle", "committed", "rolled_back"}
    /\ runs < MaxRuns
    /\ runs' = runs + 1
    /\ Did(o, "init",
           [IdleOrch EXCEPT !.role = role,
                            !.handler = __init__(TRUE, role, store.role, "UPDATE").handler])
    /\ UNCHANGED <<translationVars, store, events, rowlock, partial_match>>
    /\ OnlyOrchsChange

\* line 72: self.binding_mapping = self.role.binding_mapping; when it
\* raises DoesNotExist the load is over (lines 82-86)
OReadMapping(o) ==
    /\ Successor(orch[o].pc) = "read_mapping"
    /\ rowlock[orch[o].role] \in {"none", o}
    /\ IF RoleBindingMapping(store, orch[o].role).err # NoError
       THEN orch' = [orch EXCEPT ![o].pc = "migrate_current",
                                 ![o].steps = Append(@, "read_mapping"),
                                 ![o].loaded_access = store.role[orch[o].role].access]
       ELSE Did(o, "read_mapping",
                [orch[o] EXCEPT !.handler.binding_mapping =
                                    RoleBindingMapping(store, orch[o].role).row,
                                !.found = TRUE,
                                !.loaded_access = store.role[orch[o].role].access])
    /\ UNCHANGED <<translationVars, store, events, rowlock, runs, partial_match>>
    /\ OnlyOrchsChange

\* lines 76-77 under migrate_role: the registry is empty and the request
\* enters set_system_roles
OSetSystemRoles(o) ==
    /\ Successor(orch[o].pc) \in {"migrate_current", "compute"}
    /\ SYSTEM_ROLES = <<>>
    /\ orch' = [orch EXCEPT ![o].pc = "populating",
                            ![o].resume = orch[o].pc,
                            ![o].rows = SystemRowsOf(role_store)]
    /\ UNCHANGED <<translationVars, store, events, rowlock, runs, partial_match>>
    /\ OnlyOrchsChange

\* lines 85-92: one iteration of the loop of set_system_roles
OAddSystemRole(o) ==
    /\ orch[o].pc = "populating"
    /\ orch[o].rows # <<>>
    /\ orch' = [orch EXCEPT ![o].rows = Tail(@)]
    /\ SYSTEM_ROLES' = IF Head(orch[o].rows).external_role_id THEN SYSTEM_ROLES
                       ELSE add_system_role(SYSTEM_ROLES, SystemRoleOfRow(Head(orch[o].rows)))
    /\ UNCHANGED <<candidate_system_roles, custom_roles_created, store, events, rowlock, runs,
                   partial_match>>
    /\ OnlyOrchsChange

\* line 78: get_system_roles returns
OReturnSystemRoles(o) ==
    /\ orch[o].pc = "populating"
    /\ orch[o].rows = <<>>
    /\ orch' = [orch EXCEPT ![o].pc = orch[o].resume]
    /\ UNCHANGED <<translationVars, store, events, rowlock, runs, partial_match>>
    /\ OnlyOrchsChange

\* lines 74-79: the current relations, from the role as it is stored
OMigrateCurrent(o) ==
    /\ Successor(orch[o].pc) = "migrate_current"
    /\ SYSTEM_ROLES # <<>>
    /\ rowlock[orch[o].role] \in {"none", o}
    /\ \E out \in LoadMigrated(orch[o].handler, store, Globals, "none",
                                migrate_role(store.role[orch[o].role], orch[o].handler.org_id,
                                             orch[o].handler.binding_mapping, Globals,
                                             role_store, UsedByOrchs)) :
          /\ out.raised = NoError
          /\ Did(o, "migrate_current", [orch[o] EXCEPT !.handler = out.handler])
          /\ Migrated(out.g)
    /\ UNCHANGED <<store, events, rowlock, runs>>
    /\ OnlyOrchsChange

\* the legacy write of the caller; it locks the rows of the role
OMutate(o, access) ==
    /\ Successor(orch[o].pc) = "mutate"
    /\ rowlock[orch[o].role] \in {"none", o}
    /\ rowlock' = [rowlock EXCEPT ![orch[o].role] = o]
    /\ store' = [store EXCEPT !.role[orch[o].role].access = access]
    /\ Did(o, "mutate", [orch[o] EXCEPT !.saved_role = store.role[orch[o].role]])
    /\ UNCHANGED <<translationVars, events, runs, partial_match>>
    /\ OnlyOrchsChange

\* lines 119-127: the new relations and mappings; m is what migrate_role
\* returns
OComputed(o, m) ==
    /\ m.errs = {}
    /\ Did(o, "compute",
           [orch[o] EXCEPT !.handler.role_relations = m.relations, !.mappings = m.mappings])
    /\ Migrated(m.g)
    /\ UNCHANGED <<store, events, rowlock, runs>>
    /\ OnlyOrchsChange

OCompute(o) ==
    /\ Successor(orch[o].pc) = "compute"
    /\ SYSTEM_ROLES # <<>>
    /\ OComputed(o, migrate_role(store.role[orch[o].role], orch[o].handler.org_id,
                                 orch[o].handler.binding_mapping, Globals, role_store,
                                 UsedByOrchs))

\* the other orchestrations of the role that read its mapping and have not
\* written it yet
ReadersOf(role, o) ==
    {u \in OrchIds \ {o} :
        /\ orch[u].role = role
        /\ orch[u].pc \notin {"idle", "committed", "rolled_back", "failed"}
        /\ \E i \in DOMAIN orch[u].steps : orch[u].steps[i] = "read_mapping"
        /\ \A i \in DOMAIN orch[u].steps : orch[u].steps[i] # "upsert"}

\* lines 128-132; out is what the create-or-update leaves, and lines
\* 134-136 wrap what it raises
OUpserted(o, out) ==
    /\ IF out.raised # NoError
       THEN /\ orch' = [orch EXCEPT ![o].pc = "failed",
                                    ![o].exc = DualWriteException(out.raised)]
            /\ UNCHANGED store
       ELSE /\ orch' = [u \in OrchIds |->
                           IF u = o
                           THEN [orch[o] EXCEPT !.pc = "upsert",
                                                !.steps = Append(@, "upsert"),
                                                !.handler = out.handler,
                                                !.prev = MappingKeys(
                                                    store.binding_mapping[orch[o].role])]
                           ELSE IF u \in ReadersOf(orch[o].role, o)
                           THEN [orch[u] EXCEPT !.stale = TRUE]
                           ELSE orch[u]]
            /\ store' = out.db
    /\ UNCHANGED <<translationVars, events, rowlock, runs, partial_match>>
    /\ OnlyOrchsChange

OUpsert(o) ==
    /\ Successor(orch[o].pc) = "upsert"
    /\ OUpserted(o, UpsertMapping(orch[o].handler, store, Globals, orch[o].mappings, "none"))

\* the outbox row of an orchestration (lines 158-164)
OutboxRecordOf(o) ==
    OutboxRow("Role", orch[o].handler.role, orch[o].handler.event_type,
              _build_replication_event(TRUE, orch[o].handler).event)

\* lines 165-167: the outbox row is inserted
OInsert(o) ==
    /\ Successor(orch[o].pc) = "insert"
    /\ store' = OutboxCreate(store, OutboxRecordOf(o))
    /\ events' = Append(events, [row |-> OutboxRecordOf(o), access |-> store.role[orch[o].role].access,
                                 stale |-> orch[o].stale, found |-> orch[o].found,
                                 loaded_access |-> orch[o].loaded_access,
                                 prev |-> orch[o].prev,
                                 by |-> o,
                                 partial |-> partial_match])
    /\ Did(o, "insert", orch[o])
    /\ UNCHANGED <<translationVars, rowlock, runs, partial_match>>
    /\ OnlyOrchsChange

\* line 168: the outbox row is deleted
ODelete(o) ==
    /\ Successor(orch[o].pc) = "delete"
    /\ store' = OutboxDelete(store, OutboxRecordOf(o))
    /\ Did(o, "delete", orch[o])
    /\ UNCHANGED <<translationVars, events, rowlock, runs, partial_match>>
    /\ OnlyOrchsChange

\* the transaction of the request commits
OCommit(o) ==
    /\ orch[o].pc = StatementOrder[Len(StatementOrder)]
    /\ orch' = [orch EXCEPT ![o].pc = "committed"]
    /\ rowlock' = [r \in ConcRoleIds |-> IF rowlock[r] = o THEN "none" ELSE rowlock[r]]
    /\ UNCHANGED <<translationVars, store, events, runs, partial_match>>
    /\ OnlyOrchsChange

\* DualWriteException escaped: the transaction of the request is rolled
\* back, the caller's write with it
ORollback(o) ==
    /\ orch[o].pc = "failed"
    /\ orch' = [orch EXCEPT ![o].pc = "rolled_back"]
    /\ store' = [store EXCEPT !.role[orch[o].role] = orch[o].saved_role]
    /\ rowlock' = [r \in ConcRoleIds |-> IF rowlock[r] = o THEN "none" ELSE rowlock[r]]
    /\ UNCHANGED <<translationVars, events, runs, partial_match>>
    /\ OnlyOrchsChange

InitConcurrent ==
    /\ REPLICATION_TO_RELATION_ENABLED = TRUE
    /\ role_store = ConcRoleStore
    /\ InitProcess
    /\ store \in ConcStoreChoices
    /\ CacheUnused

NextConcurrent ==
    \E o \in OrchIds :
        \/ \E role \in ConcRoleIds : OConstruct(o, role)
        \/ OReadMapping(o)
        \/ OSetSystemRoles(o)
        \/ OAddSystemRole(o)
        \/ OReturnSystemRoles(o)
        \/ OMigrateCurrent(o)
        \/ \E access \in ConcAccessChoices : OMutate(o, access)
        \/ OCompute(o)
        \/ OUpsert(o)
        \/ OInsert(o)
        \/ ODelete(o)
        \/ OCommit(o)
        \/ ORollback(o)

SpecConcurrent == InitConcurrent /\ [][NextConcurrent]_vars

(***************************************************************************)
(* The Redis cache.  A command of the server either raises a Redis error   *)
(* and changes nothing, or takes effect; the commands of a pipeline take   *)
(* effect together at execute.  fail names what raises in a call: nothing, *)
(* the ping of a new connection, or the first command sent.                *)
(***************************************************************************)
MaxCacheCalls == 2

ACCESS_CACHE_LIFETIME == 600

CacheFailPoints == {"none", "connect", "command"}

\* f"rbac::policy::tenant={self.tenant}::user={uuid}" (line 106)
key_for(tenant, uuid) ==
    <<"rbac::policy::tenant=">> \o tenant \o <<"::user=">> \o uuid

\* f"rbac::tenant::schema={schema_name}" (line 36)
tenant_key_for(schema_name) == <<"rbac::tenant::schema=">> \o schema_name

\* the glob patterns of the KEYS command: * stands for any run of atoms
RECURSIVE GlobMatch(_, _)
GlobMatch(pattern, key) ==
    IF pattern = <<>> THEN key = <<>>
    ELSE IF Head(pattern) = "*"
    THEN \E i \in 0..Len(key) : GlobMatch(Tail(pattern), SubSeq(key, i + 1, Len(key)))
    ELSE key # <<>> /\ Head(key) = Head(pattern) /\ GlobMatch(Tail(pattern), Tail(key))

\* HGET key field: the value, or None
redis_hget(r, key, field) ==
    IF key \in DOMAIN r.hashes /\ field \in DOMAIN r.hashes[key]
    THEN r.hashes[key][field] ELSE PyNone

\* HSET key field value
redis_hset(r, key, field, value) ==
    [r EXCEPT !.hashes =
        [k \in DOMAIN @ \cup {key} |->
            IF k # key THEN @[k]
            ELSE [f \in (IF key \in DOMAIN @ THEN DOMAIN @[key] ELSE {}) \cup {field} |->
                     IF f = field THEN value ELSE @[key][f]]]]

\* GET key and SET key value; SET drops the expiry the key had
redis_get(r, key) == IF key \in DOMAIN r.strings THEN r.strings[key] ELSE PyNone

redis_set(r, key, value) ==
    [r EXCEPT !.strings = [k \in DOMAIN @ \cup {key} |-> IF k = key THEN value ELSE @[k]],
              !.ttl = [k \in DOMAIN @ \ {key} |-> @[k]]]

RedisKeys(r) == DOMAIN r.hashes \cup DOMAIN r.strings

\* EXPIRE key seconds
redis_expire(r, key, seconds) ==
    IF key \notin RedisKeys(r) THEN r
    ELSE [r EXCEPT !.ttl = [k \in DOMAIN @ \cup {key} |-> IF k = key THEN seconds ELSE @[k]]]

\* DEL key [key ...]
redis_delete(r, keys) ==
    [hashes |-> [k \in DOMAIN r.hashes \ keys |-> r.hashes[k]],
     strings |-> [k \in DOMAIN r.strings \ keys |-> r.strings[k]],
     ttl |-> [k \in DOMAIN r.ttl \ keys |-> r.ttl[k]]]

\* KEYS pattern
redis_keys(r, pattern) == {k \in RedisKeys(r) : GlobMatch(pattern, k)}

\* json.dumps of a list of scalars: items are separated by a comma and a space
JsonScalarDumps(x) ==
    IF x.t = "str" THEN <<Quote>> \o x.v \o <<Quote>>
    ELSE IF x.t = "int" THEN x.v ELSE <<"null">>

RECURSIVE JsonItemsDumps(_)
JsonItemsDumps(items) ==
    IF items = <<>> THEN <<>>
    ELSE IF Len(items) = 1 THEN JsonScalarDumps(items[1])
    ELSE JsonScalarDumps(items[1]) \o <<Comma, " ">> \o JsonItemsDumps(Tail(items))

json_dumps(policy) ==
    IF policy.none THEN <<"null">> ELSE <<"[">> \o JsonItemsDumps(policy.items) \o <<"]">>

\* json.loads of a stored policy: white space between the tokens is skipped
json_loads(policy_string) ==
    LET parsed == JsonLoads(SelectSeq(policy_string, LAMBDA a : a # " ")) IN
    IF ~parsed.ok THEN [val |-> NoPolicy, err |-> "JSONDecodeError"]
    ELSE IF parsed.kind = "list" THEN [val |-> PyList(parsed.items), err |-> NoError]
    ELSE [val |-> NoPolicy, err |-> NoError]

\* pickle.dumps and pickle.loads of a tenant
pickle_dumps(tenant) ==
    <<"pickle", IF tenant.ready THEN "T" ELSE "F">> \o tenant.schema_name
pickle_loads(bytes) ==
    [schema_name |-> SubSeq(bytes, 3, Len(bytes)), ready |-> bytes[2] = "T"]

TenantObject(schema_name) == [schema_name |-> schema_name, ready |-> TRUE]

\* what a call of a cache method leaves: the server, _connection, what it
\* returned, the exception that escaped it, the Redis error raised inside
\* it and the number of commands it sent, the ping included
CacheOutcome(r, conn, result, e, raised, ops) ==
    [exc |-> e, redis |-> r, raised |-> raised, result |-> result, ops |-> ops, conn |-> conn]

\* the property connection (lines 22-32, 92-102)
Connect(conn, fail) ==
    IF conn # NoConnection THEN [raised |-> NoError, ops |-> 0, conn |-> conn]
    ELSE IF fail = "connect" THEN [raised |-> "ConnectionError", ops |-> 1, conn |-> NoConnection]
    ELSE [raised |-> NoError, ops |-> 1, conn |-> "Redis"]

\* one command on the connection, inside try / except RedisError: after is
\* the server when the command took effect
Command(r, c, fail, after, result) ==
    IF c.raised # NoError
    THEN CacheOutcome(r, c.conn, NoPolicy, NoError, c.raised, c.ops)
    ELSE IF fail = "command"
    THEN CacheOutcome(r, c.conn, NoPolicy, NoError, "TimeoutError", c.ops + 1)
    ELSE CacheOutcome(after, c.conn, result, NoError, NoError, c.ops + 1)

\* get_policy (lines 108-118)
PolicyRead(policy_string) ==
    IF policy_string # PyNone /\ policy_string # <<>> THEN json_loads(policy_string).val
    ELSE NoPolicy

get_policy(enabled, tenant, conn, r, uuid, application, fail) ==
    IF ~enabled THEN CacheOutcome(r, conn, NoPolicy, NoError, NoError, 0)
    ELSE Command(r, Connect(conn, fail), fail, r,
                 PolicyRead(redis_hget(r, key_for(tenant, uuid), application)))

\* the statement pipe.reset() of the finally clause: pipe is not bound when
\* self.connection raised
PipeReset(c) == IF c.raised # NoError THEN "UnboundLocalError" ELSE NoError

\* variant of the pipelined write below whose finally clause calls
\* pipe.reset() outside a try
PipelinedUnguardedReset(r, c, fail, after, commands) ==
    IF c.raised # NoError
    THEN CacheOutcome(r, c.conn, NoPolicy, PipeReset(c), c.raised, c.ops)
    ELSE IF fail = "command"
    THEN CacheOutcome(r, c.conn, NoPolicy, PipeReset(c), "TimeoutError", c.ops + commands)
    ELSE CacheOutcome(after, c.conn, NoPolicy, PipeReset(c), NoError, c.ops + commands)

\* with self.connection.pipeline() as pipe: ...; pipe.execute(), inside
\* try / except RedisError / finally (lines 51-63, 150-162): what pipe.reset()
\* raises in the finally clause is dropped
Pipelined(r, c, fail, after, commands) ==
    IF c.raised # NoError
    THEN CacheOutcome(r, c.conn, NoPolicy, NoError, c.raised, c.ops)
    ELSE IF fail = "command"
    THEN CacheOutcome(r, c.conn, NoPolicy, NoError, "TimeoutError", c.ops + commands)
    ELSE CacheOutcome(after, c.conn, NoPolicy, NoError, NoError, c.ops + commands)

\* save_policy (lines 146-162)
save_policy(enabled, tenant, conn, r, uuid, application, policy, fail) ==
    IF ~enabled THEN CacheOutcome(r, conn, NoPolicy, NoError, NoError, 0)
    ELSE Pipelined(r, Connect(conn, fail), fail,
                   redis_expire(redis_hset(r, key_for(tenant, uuid), application,
                                           json_dumps(policy)),
                                key_for(tenant, uuid), ACCESS_CACHE_LIFETIME),
                   2)

\* with self.delete_handler(err_msg): body (lines 73-81, 120-128).  The
\* generator returns without a yield when the cache is disabled, and
\* contextlib raises RuntimeError("generator didn't yield") for it
delete_handler(enabled, r, conn, body) ==
    IF ~enabled THEN CacheOutcome(r, conn, NoPolicy, "RuntimeError", NoError, 0)
    ELSE body

\* delete_policy (lines 130-135)
delete_policy(enabled, tenant, conn, r, uuid, fail) ==
    delete_handler(enabled, r, conn,
                   Command(r, Connect(conn, fail), fail,
                           redis_delete(r, {key_for(tenant, uuid)}), NoPolicy))

\* lines 142-144 once KEYS returned: DEL is sent when there are keys
DeleteKeys(r, c, fail, keys) ==
    IF c.raised # NoError \/ fail = "command" \/ keys = {}
    THEN Command(r, c, fail, r, NoPolicy)
    ELSE CacheOutcome(redis_delete(r, keys), c.conn, NoPolicy, NoError, NoError, c.ops + 2)

\* variant of delete_all_policies_for_tenant whose pattern leaves the user
\* part of the key out
delete_all_policies_by_tenant_prefix(enabled, tenant, conn, r, fail) ==
    delete_handler(enabled, r, conn,
                   DeleteKeys(r, Connect(conn, fail), fail,
                              redis_keys(r, <<"rbac::policy::tenant=">> \o tenant \o <<"*">>)))

\* delete_all_policies_for_tenant (lines 137-144)
delete_all_policies_for_tenant(enabled, tenant, conn, r, fail) ==
    delete_handler(enabled, r, conn,
                   DeleteKeys(r, Connect(conn, fail), fail,
                              redis_keys(r, key_for(tenant, <<"*">>))))

\* TenantCache.get (lines 38-46)
TenantRead(bytes) ==
    IF bytes # PyNone THEN [items |-> <<pickle_loads(bytes)>>, none |-> FALSE] ELSE NoPolicy

tenant_get(conn, r, schema_name, fail) ==
    Command(r, Connect(conn, fail), fail, r,
            TenantRead(redis_get(r, tenant_key_for(schema_name))))

\* TenantCache.save (lines 48-63)
tenant_save(conn, r, tenant, fail) ==
    Pipelined(r, Connect(conn, fail), fail,
              redis_expire(redis_set(r, tenant_key_for(tenant.schema_name),
                                     pickle_dumps(tenant)),
                           tenant_key_for(tenant.schema_name), ACCESS_CACHE_LIFETIME),
              2)

\* TenantCache.delete (lines 65-71)
tenant_delete(enabled, conn, r, tenant, fail) ==
    delete_handler(enabled, r, conn,
                   Command(r, Connect(conn, fail), fail,
                           redis_delete(r, {tenant_key_for(tenant.schema_name)}), NoPolicy))

\* what can raise in a call on object c: the ping is sent by the call that
\* opens the connection only
FailChoices(c) ==
    IF connection[c] = NoConnection THEN CacheFailPoints ELSE CacheFailPoints \ {"connect"}

OnlyCacheChanges ==
    UNCHANGED <<REPLICATION_TO_RELATION_ENABLED, translationVars, dbVars, handlerVars,
                callVars, thread, orchVars, ACCESS_CACHE_ENABLED>>

\* a cache method was called on object c and left o
CacheCalled(c, op, tenant, uuid, application, o) ==
    /\ cache_calls < MaxCacheCalls
    /\ cache_calls' = cache_calls + 1
    /\ redis' = o.redis
    /\ connection' = [connection EXCEPT ![c] = o.conn]
    /\ cache_call' = [op |-> op, uuid |-> uuid, exc |-> o.exc, raised |-> o.raised,
                      tenant |-> tenant, application |-> application, result |-> o.result, ops |-> o.ops]
    /\ redis_failed' = (redis_failed \/ o.raised # NoError)
    /\ OnlyCacheChanges

\* AccessCache(tenant).get_policy(uuid, application)
GetPolicy(tenant, uuid, application) ==
    \E fail \in FailChoices(tenant) :
          /\ CacheCalled(tenant, "get_policy", tenant, uuid, application,
                         get_policy(ACCESS_CACHE_ENABLED, tenant, connection[tenant], redis, uuid,
                                    application, fail))
          /\ UNCHANGED latest

\* AccessCache(tenant).save_policy(uuid, application, policy)
SavePolicy(tenant, uuid, application, policy) ==
    \E fail \in FailChoices(tenant) :
          /\ CacheCalled(tenant, "save_policy", tenant, uuid, application,
                         save_policy(ACCESS_CACHE_ENABLED, tenant, connection[tenant], redis, uuid,
                                     application, policy, fail))
          /\ latest' = [latest EXCEPT ![<<tenant, uuid, application>>] = policy]

\* AccessCache(tenant).delete_policy(uuid)
DeletePolicy(tenant, uuid) ==
    \E fail \in FailChoices(tenant) :
          /\ CacheCalled(tenant, "delete_policy", tenant, uuid, "",
                         delete_policy(ACCESS_CACHE_ENABLED, tenant, connection[tenant], redis, uuid,
                                       fail))
          /\ latest' = [k \in PolicySlots |->
                           IF k[1] = tenant /\ k[2] = uuid THEN NoPolicy ELSE latest[k]]

\* AccessCache(tenant).delete_all_policies_for_tenant()
DeleteAllPoliciesForTenant(tenant) ==
    \E fail \in FailChoices(tenant) :
          /\ CacheCalled(tenant, "delete_all_policies_for_tenant", tenant, <<>>, "",
                         delete_all_policies_for_tenant(ACCESS_CACHE_ENABLED, tenant,
                                                        connection[tenant], redis, fail))
          /\ latest' = [k \in PolicySlots |-> IF k[1] = tenant THEN NoPolicy ELSE latest[k]]

\* TenantCache().get(schema_name)
TenantGet(schema_name) ==
    \E fail \in FailChoices(TheTenantCache) :
          /\ CacheCalled(TheTenantCache, "tenant_get", schema_name, <<>>, "",
                         tenant_get(connection[TheTenantCache], redis, schema_name, fail))
          /\ UNCHANGED latest

\* TenantCache().save(tenant)
TenantSave(schema_name) ==
    \E fail \in FailChoices(TheTenantCache) :
          /\ CacheCalled(TheTenantCache, "tenant_save", schema_name, <<>>, "",
                         tenant_save(connection[TheTenantCache], redis, TenantObject(schema_name),
                                     fail))
          /\ UNCHANGED latest

\* TenantCache().delete(tenant)
TenantDelete(schema_name) ==
    \E fail \in FailChoices(TheTenantCache) :
          /\ CacheCalled(TheTenantCache, "tenant_delete", schema_name, <<>>, "",
                         tenant_delete(ACCESS_CACHE_ENABLED, connection[TheTenantCache], redis,
                                       TenantObject(schema_name), fail))
          /\ UNCHANGED latest

\* what an earlier process may have left on the server: nothing, or the
\* policy it saved for one user of one tenant
SeededSlot == <<<<"acct", "1", "0">>, <<"ua">>, "inventory">>
SeededPolicy == PyList(<<StrVal(<<"p">>), IntVal(<<"7">>)>>)
SeededRedis ==
    save_policy(TRUE, SeededSlot[1], NoConnection, EmptyRedis, SeededSlot[2], SeededSlot[3],
                SeededPolicy, "none").redis

InitCache ==
    /\ REPLICATION_TO_RELATION_ENABLED = TRUE
    /\ role_store = SeededRoleRows
    /\ InitProcess
    /\ store = EmptyStore
    /\ ACCESS_CACHE_ENABLED \in BOOLEAN
    /\ \/ /\ redis = EmptyRedis
          /\ latest = [k \in PolicySlots |-> NoPolicy]
       \/ /\ redis = SeededRedis
          /\ latest = [k \in PolicySlots |-> IF k = SeededSlot THEN SeededPolicy ELSE NoPolicy]

NextCache ==
    \/ \E t \in TenantNames, u \in UserIds, a \in Applications : GetPolicy(t, u, a)
    \/ \E t \in TenantNames, u \in UserIds, a \in Applications, p \in PolicyChoices :
          SavePolicy(t, u, a, p)
    \/ \E t \in TenantNames, u \in UserIds : DeletePolicy(t, u)
    \/ \E t \in TenantNames : DeleteAllPoliciesForTenant(t)
    \/ \E t \in TenantNames : TenantGet(t)
    \/ \E t \in TenantNames : TenantSave(t)
    \/ \E t \in TenantNames : TenantDelete(t)

SpecCache == InitCache /\ [][NextCache]_vars

(***************************************************************************)
(* Properties of the dual-write handler.                                   *)
(***************************************************************************)
\* the structural content of a serialised relation: role, resource and
\* groups, without the generated ids of the binding and of a custom role
StructKey(j) ==
    [permissions |-> j.relation.permissions,
     is_system |-> j.relation.is_system,
     role_id |-> IF j.relation.is_system THEN j.relation.role_id ELSE "",
     object |-> j.object,
     subject |-> j.subject]

StructKeys(js) == {StructKey(j) : j \in js}

\* the relations a handler holds, serialised
NewKeys(h) == StructKeys({relationship_to_json(r) : r \in handler[h].role_relations})
CurrentKeys(h) == StructKeys({relationship_to_json(r) : r \in handler[h].current_role_relations})

\* the last operation of handler h returned a replication event
Published(h) == ret[h].kind = "event"

\* C1: the event of every publish has relations_to_add = new - current and
\* relations_to_remove = current - new, relations compared structurally.
C1_EventIsDifference ==
    \A h \in HandlerIds :
        Published(h) =>
            /\ StructKeys(ret[h].event.relations_to_add) = NewKeys(h) \ CurrentKeys(h)
            /\ StructKeys(ret[h].event.relations_to_remove) = CurrentKeys(h) \ NewKeys(h)

\* C2: no relation is both added and removed by one event.
C2_AddRemoveDisjoint ==
    \A h \in HandlerIds :
        Published(h) =>
            StructKeys(ret[h].event.relations_to_add)
                \cap StructKeys(ret[h].event.relations_to_remove) = {}

\* C3: when the current relations equal the new ones, the event is empty
\* and the outbox row inserted for it has an empty payload.
C3_NoChangeEmptyEvent ==
    \A h \in HandlerIds :
        (Published(h) /\ CurrentKeys(h) = NewKeys(h)) =>
            /\ ret[h].event.relations_to_add = {}
            /\ ret[h].event.relations_to_remove = {}
            /\ db.wal.last.payload_empty

\* the structural content of the binding of system role S1 on W1 for G1
S1OnW1ForG1 ==
    [permissions |-> {<<"app", Underscore, "x", Underscore, "read">>}, is_system |-> TRUE,
     role_id |-> "S1",
     object |-> {V2boundresource(WorkspaceType, W1)},
     subject |-> [ids |-> {"G1"}, type |-> "group"]]

\* role R1 was loaded with the single binding S1 on W1 for G1 and is
\* published with the permissions of S1 plus app:y:write
C7Scenario(h) ==
    /\ Published(h)
    /\ ret[h].op = "generate"
    /\ CurrentKeys(h) = {S1OnW1ForG1}
    /\ db.role[handler[h].role].access = {PermXRead, PermYWrite}
    /\ db.role[handler[h].role].groups = {G1}

\* C7: in that scenario the event adds a custom-role binding on W1 for G1
\* and removes nothing, the S1 binding being in the current and new sets.
C7_ScenarioDiff ==
    \A h \in HandlerIds :
        C7Scenario(h) =>
            /\ \E j \in ret[h].event.relations_to_add :
                  /\ ~j.relation.is_system
                  /\ j.object = {V2boundresource(WorkspaceType, W1)}
                  /\ j.subject.ids = {"G1"}
            /\ ret[h].event.relations_to_remove = {}
            /\ S1OnW1ForG1 \in CurrentKeys(h) \cap NewKeys(h)

\* C4: the mapping upsert and the outbox insert of a publish are all or
\* nothing: in what the committed transactions left, and in every
\* transaction whose last operation did not raise, every mapping upsert has
\* its outbox insert and every outbox insert of a generate has its mapping
\* upsert.
C4_AllOrNothing ==
    /\ committed.unpaired = 0
    /\ \A h \in HandlerIds :
          pc[h] # "failed" => db.wal.n = db.upserts + db.direct_inserts

\* a generate upserted the mapping and failed before the outbox insert
C4_Witness ==
    \E h \in HandlerIds :
        /\ pc[h] = "failed"
        /\ ret[h].op = "generate"
        /\ db.upserts = committed.upserts + 1
        /\ db.wal.n = committed.wal.n

\* C5: every successful publish inserts exactly one outbox row, of aggregate
\* type Role, for the role written and with the handler's event type; the
\* events published to the log are as many as the successful publishes, a
\* call that raised publishing none.
C5_OneEventPerWrite ==
    /\ committed.unpublished = 0
    /\ \A h \in HandlerIds :
          /\ pc[h] # "failed" => db.wal.n = db.ok_publishes
          /\ Published(h) =>
                /\ db.wal.last.aggregatetype = "Role"
                /\ db.wal.last.aggregateid = target[h]
                /\ db.wal.last.event_type = handler[h].event_type

\* a publish is committed, and a later call inserted a row and then raised
C5_Witness ==
    \E h \in HandlerIds :
        /\ target[h] # NoneRole
        /\ committed.binding_mapping[target[h]] # <<>>
        /\ pc[h] = "failed"
        /\ db.wal.n = 1
        /\ db.ok_publishes = 0
        /\ handler[h].event_type = "CREATE"

\* C6: the outbox row of a publish is deleted by the call that inserted it:
\* the table is empty after every operation that did not raise and in the
\* committed database.
C6_OutboxDoesNotGrow ==
    /\ committed.outbox = <<>>
    /\ \A h \in HandlerIds : pc[h] # "failed" => db.outbox = <<>>

\* a publish inserted a row in the open transaction
C6_Witness ==
    \E h \in HandlerIds :
        /\ Published(h)
        /\ db.wal.n = committed.wal.n + 1
        /\ db.outbox = <<>>

\* the mappings of a stored row are those of the relations the handler holds
MappingsMatchRelations(row, relations) ==
    {Relationship(b) : b \in row.mappings} = relations

\* C8: a load that finds no BindingMapping raises nothing and leaves the
\* current relations empty and the mapping reference unset; the generate
\* that follows creates the mapping and publishes an event that removes
\* nothing.
C8_MissingMappingIsEmptyState ==
    \A h \in HandlerIds :
        /\ (/\ ret[h].op = "load"
            /\ target[h] # NoneRole
            /\ db.binding_mapping[target[h]] = <<>>
            /\ ret[h].raised # "OperationalError")
           => /\ exc[h] = NoExc
              /\ pc[h] = "loaded"
              /\ loaded[h] = "missing"
              /\ handler[h].current_role_relations = {}
              /\ handler[h].binding_mapping = NoMapping
        /\ (loaded[h] = "missing" /\ Published(h) /\ ret[h].op = "generate")
           => /\ committed.binding_mapping[target[h]] = <<>>
              /\ db.binding_mapping[target[h]] = <<handler[h].binding_mapping>>
              /\ MappingsMatchRelations(handler[h].binding_mapping, handler[h].role_relations)
              /\ ret[h].event.relations_to_remove = {}

\* a generate after a load that found no mapping published a non-empty event
C8_Witness ==
    \E h \in HandlerIds :
        /\ loaded[h] = "missing"
        /\ Published(h)
        /\ ret[h].op = "generate"
        /\ ret[h].event.relations_to_add # {}
        /\ Len(db.binding_mapping[target[h]]) = 1

\* C9: a role never has two BindingMappings; a successful generate leaves
\* the role's single row holding the newly computed mappings; a generate
\* without a load on a role that has a mapping inserts nothing.
C9_OneMappingPerRole ==
    /\ \A r \in RoleIds :
          Len(db.binding_mapping[r]) <= 1 /\ Len(committed.binding_mapping[r]) <= 1
    /\ \A h \in HandlerIds :
          /\ (Published(h) /\ ret[h].op = "generate")
             => /\ db.binding_mapping[target[h]] = <<handler[h].binding_mapping>>
                /\ handler[h].binding_mapping.role = target[h]
                /\ MappingsMatchRelations(handler[h].binding_mapping, handler[h].role_relations)
          /\ (/\ ret[h].op = "generate"
              /\ loaded[h] = "no"
              /\ publishes[h] = 1
              /\ target[h] # NoneRole
              /\ committed.binding_mapping[target[h]] # <<>>)
             => /\ pc[h] = "failed"
                /\ db.binding_mapping = committed.binding_mapping

\* a generate after a load that found the mapping changed the row in place
C9_Witness ==
    \E h \in HandlerIds :
        /\ Published(h)
        /\ ret[h].op = "generate"
        /\ loaded[h] = "found"
        /\ Len(committed.binding_mapping[target[h]]) = 1
        /\ Len(db.binding_mapping[target[h]]) = 1
        /\ db.binding_mapping[target[h]] # committed.binding_mapping[target[h]]

\* C10: with replication enabled, a failure inside an operation of the
\* handler, a missing BindingMapping in load excepted, escapes as a
\* DualWriteException whose argument is the exception raised, and nothing
\* else escapes.
C10_FailuresAreWrapped ==
    \A h \in HandlerIds :
        /\ exc[h] # NoExc
           => /\ exc[h].type = "DualWriteException"
              /\ exc[h].cause = ret[h].raised
              /\ ret[h].raised \notin {NoError, "DoesNotExist"}
        /\ ret[h].raised \notin {NoError, "DoesNotExist"}
           => /\ exc[h] # NoExc
              /\ pc[h] = "failed"

\* the translation raised IndexError inside generate
C10_Witness ==
    \E h \in HandlerIds :
        /\ ret[h].op = "generate"
        /\ exc[h] = DualWriteException("IndexError")

(***************************************************************************)
(* Properties of the handler when the flag is off.                         *)
(***************************************************************************)
\* handler h is operated, or its caller changes the role, while the flag is
\* off: the step is neither a commit nor a rollback nor a change of the flag
DisabledStep(h) ==
    /\ ~REPLICATION_TO_RELATION_ENABLED
    /\ REPLICATION_TO_RELATION_ENABLED' = REPLICATION_TO_RELATION_ENABLED
    /\ pc'[h] # "idle"

\* C11: with the flag off, every operation of the handler completes without
\* raising and returns an empty result.
C11_DisabledReturnsEmpty ==
    [][\A h \in HandlerIds :
          (DisabledStep(h) /\ db'.role = db.role) =>
              /\ exc'[h] = NoExc
              /\ ret'[h].kind # "raised"
              /\ ret'[h].event = EmptyEvent
              /\ ret'[h].relations = {}]_vars

\* C12: with the flag off, no operation of the handler changes the mapping
\* store, the outbox or its log, runs the translation, or takes a
\* BindingMapping or relations into the handler.
C12_DisabledFrame ==
    [][\A h \in HandlerIds :
          DisabledStep(h) =>
              /\ db'.binding_mapping = db.binding_mapping
              /\ db'.outbox = db.outbox
              /\ db'.wal = db.wal
              /\ db'.upserts = db.upserts
              /\ UNCHANGED translationVars
              /\ handler'[h].binding_mapping = handler[h].binding_mapping
              /\ handler'[h].role_relations = handler[h].role_relations
              /\ handler'[h].current_role_relations = handler[h].current_role_relations]_vars

\* a handler constructed and loaded with the flag on was asked to publish
\* with the flag off, a mapping of the role being stored
C12_Witness ==
    \E h \in HandlerIds :
        /\ ~REPLICATION_TO_RELATION_ENABLED
        /\ ret[h].op = "generate"
        /\ ret[h].kind = "none"
        /\ pc[h] = "published"
        /\ loaded[h] = "found"
        /\ handler[h].current_role_relations # {}
        /\ db.binding_mapping[target[h]] # <<>>

(***************************************************************************)
(* Properties of a handler that lives across a change of the flag.         *)
(***************************************************************************)
\* the constructor of handler h returned at line 43: no attribute was set
ConstructedOff(h) == InTransaction(h) /\ "org_id" \notin handler[h].attrs

\* the step is load_relations_from_current_state_of_role of handler h
LoadStep(h) == pc[h] = "constructed" /\ pc'[h] # pc[h] /\ ret'[h].op = "load"

\* the step is generate_replication_event_to_outbox of handler h
GenerateStep(h) == publishes'[h] = publishes[h] + 1 /\ ret'[h].op = "generate"

\* the step writes no mapping and no outbox row
WritesNothing ==
    /\ db'.binding_mapping = db.binding_mapping
    /\ db'.outbox = db.outbox
    /\ db'.wal = db.wal
    /\ db'.upserts = db.upserts

\* C32: every operation reads the flag anew.  A load or generate with the
\* flag on, of a handler constructed with the flag off, raises
\* DualWriteException and writes no mapping and no outbox row; a generate
\* with the flag off, of a handler that loaded with the flag on, returns and
\* writes nothing.
C32_FlagReadByEveryOperation ==
    [][\A h \in HandlerIds :
          /\ (REPLICATION_TO_RELATION_ENABLED /\ ConstructedOff(h)
                  /\ (LoadStep(h) \/ GenerateStep(h))) =>
                 /\ exc'[h].type = "DualWriteException"
                 /\ pc'[h] = "failed"
                 /\ WritesNothing
          /\ (~REPLICATION_TO_RELATION_ENABLED /\ loaded[h] \in {"found", "missing"}
                  /\ GenerateStep(h)) =>
                 /\ exc'[h] = NoExc
                 /\ ret'[h].event = EmptyEvent
                 /\ WritesNothing]_vars

\* a handler constructed with the flag off was asked to publish with the
\* flag on, for a role whose mapping is stored, and raised
C32_Witness ==
    \E h \in HandlerIds :
        /\ REPLICATION_TO_RELATION_ENABLED
        /\ ret[h].op = "generate"
        /\ exc[h] = DualWriteException("AttributeError")
        /\ "org_id" \notin handler[h].attrs
        /\ target[h] # NoneRole
        /\ db.binding_mapping[target[h]] # <<>>

\* the step is a load of handler h that reached line 81
LoadedStep(h) == LoadStep(h) /\ exc'[h] = NoExc /\ ret'[h].raised = NoError

\* C33: of the operations on a live handler, only a load that returns
\* without DoesNotExist changes its current relations; and a generate that
\* follows a publish of the same handler publishes the relations_to_remove
\* of that publish.
C33_CurrentRelationsFrame ==
    [][\A h \in HandlerIds :
          /\ (InTransaction(h) /\ pc'[h] # "idle"
                  /\ handler'[h].current_role_relations
                        # handler[h].current_role_relations) => LoadedStep(h)
          /\ (pc[h] = "published" /\ ret[h].kind = "event"
                  /\ GenerateStep(h) /\ ret'[h].kind = "event") =>
                 ret'[h].event.relations_to_remove = ret[h].event.relations_to_remove]_vars

\* a handler that loaded relations has published twice by generate, the
\* second event adding relations that are not the ones it removes
C33_Witness ==
    \E h \in HandlerIds :
        /\ pc[h] = "published"
        /\ ret[h].op = "generate"
        /\ ret[h].kind = "event"
        /\ publishes[h] = 2
        /\ db.upserts = 2
        /\ loaded[h] = "found"
        /\ ret[h].event.relations_to_remove # {}
        /\ ret[h].event.relations_to_add # ret[h].event.relations_to_remove

(***************************************************************************)
(* Properties of the System Role Matcher.                                  *)
(***************************************************************************)
\* the last direct call was extract_system_roles
Extracted == call.op = "extract"

\* the roles a result assigns to a resource
RolesOn(resource_roles, resource) == {pr[1] : pr \in {q \in resource_roles : q[2] = resource}}

\* the permission sets of the registry that are subsets of P
KeysWithin(registry, P) == {k \in RegistryKeys(registry) : k \subseteq P}

\* C13: a resource whose permission set is that of a registered system
\* role is assigned that role and nothing else; when every resource of the
\* call is such, the counter and the candidates are as before the call.
C13_ExactMatchOnly ==
    Extracted =>
        /\ \A res \in DOMAIN call.perm_groupings :
              call.perm_groupings[res] \in RegistryKeys(call.registry) =>
                  /\ RolesOn(call.resource_roles, res)
                         = {RegistryGet(call.registry, call.perm_groupings[res])}
                  /\ \A role \in RolesOn(call.resource_roles, res) :
                        role.is_system /\ role.permissions = call.perm_groupings[res]
        /\ (\A res \in DOMAIN call.perm_groupings :
                call.perm_groupings[res] \in RegistryKeys(call.registry))
           => /\ custom_roles_created = call.before.custom_roles_created
              /\ candidate_system_roles = call.before.candidate_system_roles

\* the permissions of S5 were granted on a resource, S1 being registered
\* before it with a part of them
C13_Witness ==
    /\ Extracted
    /\ Len(call.registry) = 2
    /\ call.registry[1].role.id = "S1"
    /\ \E res \in DOMAIN call.perm_groupings :
          /\ call.perm_groupings[res] = {PX, PY}
          /\ RolesOn(call.resource_roles, res) = {V2role("S5", TRUE, {PX, PY})}

\* C14: a resource whose permission set contains the permission set of no
\* registered system role gets exactly one custom role, holding exactly its
\* permissions; a call raises the counter by the custom roles it made, and
\* the counter is the number of custom roles synthesized so far.
C14_CustomRoleCounted ==
    /\ custom_roles_created = synthesized
    /\ Extracted =>
          /\ \A res \in DOMAIN call.perm_groupings :
                KeysWithin(call.registry, call.perm_groupings[res]) = {} =>
                    /\ Cardinality(RolesOn(call.resource_roles, res)) = 1
                    /\ \A role \in RolesOn(call.resource_roles, res) :
                          ~role.is_system /\ role.permissions = call.perm_groupings[res]
          /\ custom_roles_created - call.before.custom_roles_created
                 = Cardinality(CustomRolesIn(call.resource_roles))

\* the second call found no system role within {PX, PY} and one custom
\* role had been made before
C14_Witness ==
    /\ Extracted
    /\ call.before.custom_roles_created = 1
    /\ custom_roles_created = 2
    /\ \E res \in DOMAIN call.perm_groupings :
          /\ call.perm_groupings[res] = {PX, PY}
          /\ KeysWithin(call.registry, {PX, PY}) = {}

\* the greedy cover of lines 164-176 over the registry of the last call
CoverOf(res) == GreedyCover(call.registry, call.perm_groupings[res], 1, {}, <<>>)

\* the roles the greedy cover of a resource accepted
AcceptedOn(res) == {CoverOf(res).matched_roles[i] : i \in DOMAIN CoverOf(res).matched_roles}

\* what the accepted roles at registry positions before i grant
GrantedBefore(registry, accepted, i) ==
    UNION {registry[j].perms : j \in {k \in 1..(i - 1) : registry[k].role \in accepted}}

\* the greedy cover of P accepted the roles accepted, visiting the registry
\* in order: a role is accepted exactly when its permissions lie within P
\* and not within what was granted before it, and none is accepted once
\* everything is granted
GreedyAccepts(registry, P, accepted) ==
    \A i \in DOMAIN registry :
        registry[i].role \in accepted
            <=> /\ GrantedBefore(registry, accepted, i) # P
                /\ registry[i].perms \subseteq P
                /\ ~(registry[i].perms \subseteq GrantedBefore(registry, accepted, i))

\* C24: for a resource without exact match, the greedy cover visits the
\* registry in order and accepts a role exactly when its permission set is
\* a subset of P and not a subset of granted; every accepted role adds a
\* new permission, granted stays within P, nothing is accepted once
\* granted = P, and then the resource gets exactly the accepted roles.
C24_GreedyCover ==
    Extracted =>
        \A res \in DOMAIN call.perm_groupings :
            call.perm_groupings[res] \notin RegistryKeys(call.registry) =>
                /\ GreedyAccepts(call.registry, call.perm_groupings[res], AcceptedOn(res))
                /\ \A i \in DOMAIN call.registry :
                      call.registry[i].role \in AcceptedOn(res) =>
                          call.registry[i].perms
                              \ GrantedBefore(call.registry, AcceptedOn(res), i) # {}
                /\ CoverOf(res).granted = UNION {r.permissions : r \in AcceptedOn(res)}
                /\ CoverOf(res).granted \subseteq call.perm_groupings[res]
                /\ CoverOf(res).granted = call.perm_groupings[res] =>
                      RolesOn(call.resource_roles, res) = AcceptedOn(res)

\* a cover of two roles that grants everything, a role between them being
\* passed over because what it grants was granted already
C24_Witness ==
    /\ Extracted
    /\ \E res \in DOMAIN call.perm_groupings :
          /\ call.perm_groupings[res] \notin RegistryKeys(call.registry)
          /\ CoverOf(res).granted = call.perm_groupings[res]
          /\ Cardinality(AcceptedOn(res)) = 2
          /\ RolesOn(call.resource_roles, res) = AcceptedOn(res)
          /\ \E i \in DOMAIN call.registry :
                /\ call.registry[i].role \notin AcceptedOn(res)
                /\ call.registry[i].perms \subseteq call.perm_groupings[res]
                /\ GrantedBefore(call.registry, AcceptedOn(res), i) # call.perm_groupings[res]

\* the permissions the roles a result assigns to a resource grant together
PermissionsOn(resource_roles, resource) ==
    UNION {r.permissions : r \in RolesOn(resource_roles, resource)}

\* a result grants on every resource of perm_groupings exactly the
\* permissions grouped under it, and assigns roles to no other resource
PreservesPermissions(resource_roles, perm_groupings) ==
    /\ {pr[2] : pr \in resource_roles} = DOMAIN perm_groupings
    /\ \A res \in DOMAIN perm_groupings :
          PermissionsOn(resource_roles, res) = perm_groupings[res]

\* C25: the union of the permission sets of all the roles, system and
\* custom, assigned to a resource is exactly the permission set the binder
\* grouped under that resource: translation adds and loses no permission.
C25_PermissionsPreserved ==
    /\ Extracted => PreservesPermissions(call.resource_roles, call.perm_groupings)
    /\ (call.op = "mapping" /\ call.errs = {}) =>
          PreservesPermissions(call.resource_roles, PermGroupings(call.v1_role, W1, OrgId))

\* two resources, one granted by a cover of two system roles and one by a
\* custom role
C25_Witness ==
    /\ Extracted
    /\ \E res1, res2 \in DOMAIN call.perm_groupings :
          /\ res1 # res2
          /\ Cardinality(RolesOn(call.resource_roles, res1)) = 2
          /\ \E r \in RolesOn(call.resource_roles, res2) : ~r.is_system

\* C15: when the greedy cover ends with granted a strict subset of P, the
\* resource gets the system roles the cover accepted and one custom role
\* holding P - granted.
C15_LeftoverCustomRole ==
    Extracted =>
        \A res \in DOMAIN call.perm_groupings :
            (/\ call.perm_groupings[res] \notin RegistryKeys(call.registry)
             /\ CoverOf(res).granted # call.perm_groupings[res])
            => /\ {role \in RolesOn(call.resource_roles, res) : role.is_system}
                     = {CoverOf(res).matched_roles[i] : i \in DOMAIN CoverOf(res).matched_roles}
               /\ Cardinality(CustomRolesIn(call.resource_roles)
                                  \cap RolesOn(call.resource_roles, res)) = 1
               /\ \A role \in RolesOn(call.resource_roles, res) :
                     ~role.is_system =>
                         role.permissions = call.perm_groupings[res] \ CoverOf(res).granted

\* an assignment of roles to resources without the ids of custom roles
Assignment(resource_roles) ==
    {[resource |-> pr[2],
      permissions |-> pr[1].permissions,
      is_system |-> pr[1].is_system,
      role_id |-> IF pr[1].is_system THEN pr[1].id ELSE ""] : pr \in resource_roles}

\* C16: extract_system_roles called again on the input of the last call,
\* with the registry that call left, assigns the same roles to the same
\* resources, the ids of custom roles apart.
C16_MatcherIdempotent ==
    Extracted =>
        Assignment(extract_system_roles(call.perm_groupings, call.v1_role, Globals,
                                        role_store, UuidsOfCall(call)).resource_roles)
            = Assignment(call.resource_roles)

\* the last call made a custom role and tracked a candidate
C16_Witness ==
    /\ Extracted
    /\ CustomRolesIn(call.resource_roles) # {}
    /\ candidate_system_roles # call.before.candidate_system_roles
    /\ \E pr \in call.resource_roles : pr[1].is_system

\* accumulators and counters extract_system_roles may find: nothing tracked,
\* or every candidate of the call tracked already for another role
TrackedAlready(perm_groupings) ==
    [k \in UNION {CandidatesOf(perm_groupings[res], perm_groupings[res]) :
                      res \in DOMAIN perm_groupings} |-> {"R9"}]

GlobalsHolding(g, candidates, count) ==
    [g EXCEPT !.candidate_system_roles = candidates, !.custom_roles_created = count]

AssignmentHolding(candidates, count) ==
    Assignment(ExtractWithRegistry(call.perm_groupings, call.v1_role,
                                   GlobalsHolding(call.before, candidates, count),
                                   call.registry, {}).resource_roles)

\* a step keeps every key of the accumulator and every role id under it
AccumulatorGrows ==
    \A k \in DOMAIN candidate_system_roles :
        /\ k \in DOMAIN candidate_system_roles'
        /\ candidate_system_roles[k] \subseteq candidate_system_roles'[k]

\* C31: no matcher call removes a key of candidate_system_roles or a legacy
\* role id under a key, and the assignment extract_system_roles returns is
\* the one it returns with an empty accumulator and a zero counter, and with
\* an accumulator that tracks every candidate already, the ids of custom
\* roles apart.
C31_AccumulatorObservational ==
    /\ [][AccumulatorGrows]_vars
    /\ [](Extracted =>
            /\ AssignmentHolding(<<>>, 0) = Assignment(call.resource_roles)
            /\ AssignmentHolding(TrackedAlready(call.perm_groupings), 7)
                  = Assignment(call.resource_roles))

\* the last call found a candidate tracked for another legacy role, added
\* its own role id under it, and made a custom role with the counter
\* already above zero
C31_Witness ==
    /\ Extracted
    /\ call.before.custom_roles_created > 0
    /\ custom_roles_created > call.before.custom_roles_created
    /\ \E k \in DOMAIN call.before.candidate_system_roles :
          /\ call.v1_role.id \notin call.before.candidate_system_roles[k]
          /\ call.before.candidate_system_roles[k] # {}
          /\ candidate_system_roles[k]
                = call.before.candidate_system_roles[k] \cup {call.v1_role.id}


(***************************************************************************)
(* Properties of the Role Binding Generator, of the resource definition    *)
(* literals and of the registry.                                           *)
(***************************************************************************)
\* the last direct call was v1_role_to_v2_mapping and it returned
Mapped == call.op = "mapping" /\ call.errs = {}

\* the bindings of the last call for one role on one resource
BindingsFor(pr) == {b \in call.bindings : b.role = pr[1] /\ b.resources = {pr[2]}}

Max(a, b) == IF a >= b THEN a ELSE b

\* C17: for every (role, resource) pair of the assignment there is one
\* binding with the empty group set when the role has no groups and one
\* binding per group otherwise; the number of bindings is the number of
\* pairs times max(1, number of groups).
C17_BindingsPerPairAndGroup ==
    Mapped =>
        /\ Cardinality(call.bindings)
              = Cardinality(call.resource_roles) * Max(1, Cardinality(call.v1_role.groups))
        /\ \A b \in call.bindings : \E pr \in call.resource_roles : b \in BindingsFor(pr)
        /\ \A pr \in call.resource_roles :
              IF call.v1_role.groups = {}
              THEN /\ Cardinality(BindingsFor(pr)) = 1
                   /\ \A b \in BindingsFor(pr) : b.groups = {}
              ELSE /\ Cardinality(BindingsFor(pr)) = Cardinality(call.v1_role.groups)
                   /\ \A group \in call.v1_role.groups :
                         Cardinality({b \in BindingsFor(pr) :
                                          b.groups = {V2group(group.id, group.users)}}) = 1

\* a role with two groups was bound on several resources
C17_Witness ==
    /\ Mapped
    /\ Cardinality(call.v1_role.groups) = 2
    /\ Cardinality(call.resource_roles) >= 2
    /\ Cardinality(call.bindings) >= 4

\* C18: every binding v1_role_to_v2_mapping emits has a non-empty group
\* set and a non-empty resource set.
C18_BindingsNonEmpty ==
    Mapped => \A b \in call.bindings : b.groups # {} /\ b.resources # {}

\* the last direct call was split_resourcedef_literal
Split == call.op = "split"

\* the field of the last call between brackets
Bracketed == <<"[">> \o call.resourceDef.resource_id \o <<"]">>

\* C19: with the operator "in" a JSON array gives one id per element, and
\* a field that is no JSON gives the ids between its commas, the same ids
\* as the JSON array of them gives; with another operator a JSON scalar
\* gives exactly that one id.
C19_SplitLiteral ==
    Split =>
        /\ (/\ call.resourceDef.op = "in"
            /\ JsonLoads(call.resourceDef.resource_id).ok
            /\ JsonLoads(call.resourceDef.resource_id).kind = "list")
           => /\ call.err = NoError
              /\ call.ids = JsonLoads(call.resourceDef.resource_id).items
        /\ (/\ call.resourceDef.op = "in"
            /\ ~JsonLoads(call.resourceDef.resource_id).ok)
           => /\ call.err = NoError
              /\ Len(call.ids) = Len(SplitAll(call.resourceDef.resource_id, Comma))
              /\ (JsonLoads(Bracketed).ok /\ JsonLoads(Bracketed).kind = "list")
                 => call.ids = JsonLoads(Bracketed).items
        /\ (/\ call.resourceDef.op # "in"
            /\ JsonLoads(call.resourceDef.resource_id).ok
            /\ JsonLoads(call.resourceDef.resource_id).kind # "list")
           => /\ call.err = NoError
              /\ call.ids = JsonLoads(call.resourceDef.resource_id).items
              /\ Len(call.ids) = 1

(***************************************************************************)
(* Properties of the Resource Binder.                                      *)
(***************************************************************************)
\* the V2 permission of a grant is the V2 permission of no other grant of
\* the role among those of qs
OnlyGrantOf(p, qs) == \A q \in qs \ {p} : v1_perm_to_v2_perm(q) # v1_perm_to_v2_perm(p)

RootWorkspace == V2boundresource(WorkspaceType, W1)

\* the resources v1_role_to_v2_mapping assigned roles on
ResourcesOf(resource_roles) == {pr[2] : pr \in resource_roles}

HasNullId(resource_def) ==
    /\ JsonLoads(resource_def.resource_id).ok
    /\ \E i \in DOMAIN JsonLoads(resource_def.resource_id).items :
          JsonLoads(resource_def.resource_id).items[i] = NullVal

DefaultWorkspace == V2boundresource(WorkspaceType, OrgId)

\* C28: every resource definition of an inventory permission is bound with
\* resource type "workspace" whatever its dotted type, and no bound resource
\* of type "workspace" has a null id: a null id resolved from a resource
\* definition, a null id field under the operator "in" included, is
\* replaced by the default workspace id.
C28_InventoryOnWorkspace ==
    call.op = "mapping" =>
        /\ \A res \in ResourcesOf(call.resource_roles) :
              res.resource_type = WorkspaceType => res.resource_id # NullVal
        /\ \A p \in call.v1_role.permissions :
              p.app = <<"inventory">> =>
                  \A rd \in p.resourceDefs :
                      /\ \A res \in ResourcesOf(call.resource_roles) :
                            v1_perm_to_v2_perm(p) \in PermissionsOn(call.resource_roles, res)
                                => res.resource_type = WorkspaceType
                      /\ HasNullId(rd) =>
                            /\ call.errs = {}
                            /\ v1_perm_to_v2_perm(p)
                                  \in PermissionsOn(call.resource_roles, DefaultWorkspace)

\* the same statement for the null ids the code replaces: those that
\* split_resourcedef_literal returns as elements of a list
C28_NullElementReplaced ==
    call.op = "mapping" =>
        /\ \A res \in ResourcesOf(call.resource_roles) :
              res.resource_type = WorkspaceType => res.resource_id # NullVal
        /\ \A p \in call.v1_role.permissions :
              p.app = <<"inventory">> =>
                  \A rd \in p.resourceDefs :
                      (HasNullId(rd) /\ split_resourcedef_literal(rd).err = NoError) =>
                          /\ call.errs = {}
                          /\ v1_perm_to_v2_perm(p)
                                \in PermissionsOn(call.resource_roles, DefaultWorkspace)

\* the rows of the role store set_system_roles registers
RegisteredRows(role_rows) ==
    {role_rows[i] : i \in {k \in DOMAIN role_rows :
                               role_rows[k].system /\ ~role_rows[k].external_role_id}}

\* the translated permission set of a row
TranslatedAccess(row) ==
    {inventory_to_workspace(cleanNameForV2SchemaCompatibility(p)) : p \in row.access}

\* C29: after population the registry holds one entry per distinct
\* translated permission set of the system roles without external role id,
\* none from a role that is not a system role or has an external role id,
\* and the lookup by a permission set returns a role with that permission
\* set.
C29_RegistryContent ==
    call.op \in {"get_system_roles", "extract"} =>
        /\ RegistryKeys(call.registry) = {TranslatedAccess(row) : row \in RegisteredRows(role_store)}
        /\ Len(call.registry) = Cardinality(RegistryKeys(call.registry))
        /\ \A i \in DOMAIN call.registry :
              /\ call.registry[i].role.is_system
              /\ call.registry[i].role.permissions = call.registry[i].perms
              /\ \E row \in RegisteredRows(role_store) :
                    /\ row.uuid = call.registry[i].role.id
                    /\ TranslatedAccess(row) = call.registry[i].perms
        /\ \A key \in RegistryKeys(call.registry) :
              RegistryGet(call.registry, key).permissions = key
        /\ \A P \in PermSetChoices :
              RegistryGet(call.registry, P) # NoRole => RegistryGet(call.registry, P).permissions = P

\* get_system_roles populated the registry from a store that holds a system
\* role with an external role id beside one without
C29_Witness ==
    /\ call.op = "get_system_roles"
    /\ call.before = <<>>
    /\ call.registry # <<>>
    /\ \E i \in DOMAIN role_store : role_store[i].system /\ role_store[i].external_role_id

\* set_system_roles has run to its end in some thread
Populated == SYSTEM_ROLES # <<>> /\ SYSTEM_ROLES = FullRegistry

\* the step is one of the matcher proper, lines 158-211
MatcherStep(t) == thread[t].pc = "matching" /\ thread'[t].pc = "done"

PlaceOf(o, statement) ==
    IF \E i \in DOMAIN orch[o].steps : orch[o].steps[i] = statement
    THEN CHOOSE i \in DOMAIN orch[o].steps : orch[o].steps[i] = statement
    ELSE 0

\* statement a was completed before statement b, when b was completed
Precedes(o, a, b) == PlaceOf(o, b) # 0 => (PlaceOf(o, a) # 0 /\ PlaceOf(o, a) < PlaceOf(o, b))

\* the orchestrations that upserted the mapping and have not inserted the
\* outbox row yet
BetweenUpsertAndInsert ==
    {o \in OrchIds : PlaceOf(o, "upsert") # 0 /\ PlaceOf(o, "insert") = 0
                        /\ orch[o].pc \notin {"idle", "committed", "rolled_back"}}

\* C21: within one orchestration the BindingMapping is read before the new
\* relations are computed, the mapping upsert comes after the new relations
\* are computed and before the outbox insert, the outbox delete follows the
\* insert of the same row, and no outbox row is inserted for a role write
\* whose mapping upsert did not happen.
C21_StepOrder ==
    /\ \A o \in OrchIds :
          /\ Precedes(o, "read_mapping", "migrate_current")
          /\ Precedes(o, "read_mapping", "compute")
          /\ Precedes(o, "compute", "upsert")
          /\ Precedes(o, "upsert", "insert")
          /\ Precedes(o, "insert", "delete")
          /\ orch[o].exc # NoExc => PlaceOf(o, "insert") = 0
          /\ PlaceOf(o, "delete") = 0 =>
                \A i \in DOMAIN store.outbox :
                    store.outbox[i] = OutboxRecordOf(o) => PlaceOf(o, "insert") # 0
    /\ store.wal.n = Len(events)
    /\ store.wal.n + Cardinality(BetweenUpsertAndInsert) = store.upserts
    /\ \A i \in DOMAIN events : store.binding_mapping[events[i].row.aggregateid] # <<>>

\* one orchestration published and committed; the other one, of the same
\* role, computed its relations, failed to insert the mapping and inserted
\* no outbox row
C21_Witness ==
    \E o, u \in OrchIds :
        /\ orch[o].pc = "committed"
        /\ PlaceOf(o, "delete") # 0
        /\ orch[u].pc = "failed"
        /\ PlaceOf(u, "compute") # 0
        /\ orch[u].exc = DualWriteException("IntegrityError")
        /\ Len(events) = 1

\* the relations an event removes and adds, by structure
RemovedBy(e) == StructKeys(e.row.payload.relations_to_remove)
AddedBy(e) == StructKeys(e.row.payload.relations_to_add)

\* C22: the handler does not serialize two orchestrations of one role.
\* The events describe the transition between consecutively persisted
\* mappings, and no insert of a mapping fails, as long as no orchestration
\* of the role wrote the mapping between the load and the upsert of
\* another; when one did, the event published removes relations that are
\* not those of the mapping it replaced, or the insert of the mapping
\* fails.
C22_UnserializedSameRole ==
    /\ \A i \in DOMAIN events :
          (~events[i].stale /\ ~events[i].partial) => RemovedBy(events[i]) = events[i].prev
    /\ \A o \in OrchIds : orch[o].exc # NoExc => orch[o].stale

\* two orchestrations of one role loaded the same mapping and both
\* published: the event of the second removes the relations it loaded,
\* which are not the relations the first persisted
C22_Witness ==
    \E i, k \in DOMAIN events :
        /\ i < k
        /\ events[i].row.aggregateid = events[k].row.aggregateid
        /\ events[i].by # events[k].by
        /\ events[k].stale
        /\ ~events[k].partial
        /\ RemovedBy(events[k]) = RemovedBy(events[i])
        /\ RemovedBy(events[k]) # events[k].prev
        /\ events[k].prev = AddedBy(events[i])

\* the events of a role, in the order of their publication
EventsOf(role) == SelectSeq(events, LAMBDA e : e.row.aggregateid = role)

\* the relations a consumer holds after the events evs, which applies the
\* removals of an event before its additions, or after them
RECURSIVE Replay(_, _, _)
Replay(keys, evs, removals_first) ==
    IF evs = <<>> THEN keys
    ELSE Replay(IF removals_first
                THEN (keys \ RemovedBy(Head(evs))) \cup AddedBy(Head(evs))
                ELSE (keys \cup AddedBy(Head(evs))) \ RemovedBy(Head(evs)),
                Tail(evs), removals_first)

\* the orchestrations of a role ran one after the other and are over
RanInTurn(role) ==
    /\ \A o \in OrchIds :
          orch[o].role = role => orch[o].pc \in {"idle", "committed", "rolled_back"}
    /\ \A i \in DOMAIN EventsOf(role) :
          ~EventsOf(role)[i].stale /\ ~EventsOf(role)[i].partial

\* C26: replaying the events keeps a relations store in sync: over any
\* sequence of writes the store after replaying all the events holds the
\* relations of the last committed mapping, whichever order a consumer
\* applies the additions and the removals of an event in.
C26_ReplayInSync ==
    \A role \in ConcRoleIds :
        RanInTurn(role) =>
            /\ Replay(MappingKeys(store.seed[role]), EventsOf(role), TRUE)
                  = MappingKeys(store.binding_mapping[role])
            /\ Replay(MappingKeys(store.seed[role]), EventsOf(role), FALSE)
                  = MappingKeys(store.binding_mapping[role])

\* the same statement for the consumer that applies the removals first
C26_ReplayRemovalsFirst ==
    \A role \in ConcRoleIds :
        RanInTurn(role) =>
            Replay(MappingKeys(store.seed[role]), EventsOf(role), TRUE)
                = MappingKeys(store.binding_mapping[role])

\* the relations of a role granting access, translated by a process alone
SequentialKeys(role, access) ==
    RelationKeys(migrate_role([ConcRoleRows[role] EXCEPT !.access = access], OrgId, NoMapping,
                              PopulatedGlobals(role_store), role_store, {}).relations)

\* the orchestration that takes the step
Stepping(o) == orch'[o].steps # orch[o].steps \/ orch'[o].pc # orch[o].pc

\* an orchestration reads and writes the BindingMapping and the rows of its
\* role only, and publishes events of its role only
C30_Frame ==
    [][\A o \in OrchIds :
          Stepping(o) =>
              /\ \A r \in ConcRoleIds \ {orch'[o].role} :
                    /\ store'.binding_mapping[r] = store.binding_mapping[r]
                    /\ store'.role[r] = store.role[r]
              /\ events' # events =>
                    /\ Len(events') = Len(events) + 1
                    /\ events'[Len(events')].row.aggregateid = orch[o].role
                    /\ events'[Len(events')].row.aggregatetype = "Role"]_vars

\* every event is the one the orchestration publishes when it runs alone
SameAsInTurn ==
    \A i \in DOMAIN events :
        ~events[i].stale =>
            /\ AddedBy(events[i])
                  = SequentialKeys(events[i].row.aggregateid, events[i].access)
            /\ RemovedBy(events[i])
                  = IF events[i].found
                    THEN SequentialKeys(events[i].row.aggregateid, events[i].loaded_access)
                    ELSE {}

\* C30: dual-writes of different roles are independent: an orchestration
\* reads and writes only the BindingMapping of its role, publishes only
\* events whose aggregate id is its role and leaves the mappings of other
\* roles unchanged, and any interleaving of orchestrations of two different
\* roles produces the mappings and events of running them one after the
\* other.
C30_DifferentRolesIndependent == C30_Frame /\ []SameAsInTurn

\* C20: set_system_roles runs at most once, also when the store holds no
\* eligible system role, and no two entries of the registry have one key.
C20_PopulatedOnce ==
    /\ populations <= 1
    /\ \A i, j \in DOMAIN SYSTEM_ROLES :
          SYSTEM_ROLES[i].perms = SYSTEM_ROLES[j].perms => i = j


(***************************************************************************)
(* Properties of the Redis cache.                                          *)
(***************************************************************************)
\* the step is a call of a cache method
CacheStep == cache_calls' = cache_calls + 1

\* C34: when the ping, the read or the write of a call raises a Redis
\* error, get_policy and TenantCache.get return None, save_policy and
\* TenantCache.save leave the server as it was, and no exception escapes any
\* of the four.
C34_RedisFailureContained ==
    [][(CacheStep /\ cache_call'.raised # NoError
           /\ cache_call'.op \in {"get_policy", "tenant_get", "save_policy", "tenant_save"}) =>
          /\ cache_call'.exc = NoError
          /\ cache_call'.result = NoPolicy
          /\ redis' = redis]_vars

\* save_policy could not open its connection, for a slot whose policy the
\* server holds: the call returned and the server holds what it held
C34_Witness ==
    /\ cache_call.op = "save_policy"
    /\ cache_call.raised = "ConnectionError"
    /\ cache_call.exc = NoError
    /\ redis = SeededRedis
    /\ latest[SeededSlot] = PyList(<<>>)

\* the methods that consult ACCESS_CACHE_ENABLED
GuardedMethods ==
    {"get_policy", "save_policy", "delete_policy", "delete_all_policies_for_tenant",
     "tenant_delete"}

\* C35: with ACCESS_CACHE_ENABLED false, get_policy, save_policy,
\* delete_policy, delete_all_policies_for_tenant and TenantCache.delete send
\* nothing to Redis and return, get_policy returning None.
C35_DisabledCacheDoesNothing ==
    [][(CacheStep /\ ~ACCESS_CACHE_ENABLED /\ cache_call'.op \in GuardedMethods) =>
          /\ cache_call'.ops = 0
          /\ redis' = redis
          /\ cache_call'.exc = NoError
          /\ cache_call'.result = NoPolicy]_vars

\* what holds of them: none sends a command, and get_policy and save_policy
\* return
C35_DisabledSendsNothing ==
    [][(CacheStep /\ ~ACCESS_CACHE_ENABLED /\ cache_call'.op \in GuardedMethods) =>
          /\ cache_call'.ops = 0
          /\ redis' = redis
          /\ connection' = connection
          /\ cache_call'.op \in {"get_policy", "save_policy"} =>
                cache_call'.exc = NoError /\ cache_call'.result = NoPolicy]_vars

\* what get_policy returns for a slot when nothing fails
ReadOfSlot(slot) ==
    get_policy(TRUE, slot[1], connection[slot[1]], redis, slot[2], slot[3], "none").result

\* C36: with the cache enabled and no Redis error so far, get_policy returns
\* for every tenant, user and application the policy of the last save_policy
\* that neither a delete_policy of the user nor a
\* delete_all_policies_for_tenant of the tenant followed, and None when there
\* is none; every policy key has the expiry ACCESS_CACHE_LIFETIME; and a
\* delete in one tenant leaves the entries of every other tenant as they were.
C36_LatestSaveIsRead ==
    /\ []((ACCESS_CACHE_ENABLED /\ ~redis_failed) =>
             /\ \A slot \in PolicySlots : ReadOfSlot(slot) = latest[slot]
             /\ \A key \in DOMAIN redis.hashes :
                   key \in DOMAIN redis.ttl /\ redis.ttl[key] = ACCESS_CACHE_LIFETIME)
    /\ [][(CacheStep /\ ACCESS_CACHE_ENABLED
              /\ cache_call'.op \in {"delete_policy", "delete_all_policies_for_tenant"}) =>
             \A t \in TenantNames \ {cache_call'.tenant}, u \in UserIds, a \in Applications :
                 redis_hget(redis', key_for(t, u), a) = redis_hget(redis, key_for(t, u), a)]_vars

\* delete_all_policies_for_tenant of acct10 deleted the policy the server
\* held for it, and the policy saved for a user of acct1 is read as saved
C36_Witness ==
    /\ ACCESS_CACHE_ENABLED
    /\ ~redis_failed
    /\ cache_call.op = "delete_all_policies_for_tenant"
    /\ cache_call.tenant = SeededSlot[1]
    /\ DOMAIN redis.hashes = {key_for(<<"acct", "1">>, <<"ua">>)}
    /\ ReadOfSlot(<<<<"acct", "1">>, <<"ua">>, "cost">>) = SeededPolicy
    /\ ReadOfSlot(SeededSlot) = NoPolicy

=========================================================================
